---- MODULE Spec2Model ----
(***************************************************************************)
(* Model of the delivery status tracker (email.service.ts, sendgrid.ts)    *)
(* and of the contact research pipeline (contacts.service.ts,              *)
(* research.service.ts, clearbit.ts, emailUtils.ts) of conversion-ai-mvp.  *)
(*                                                                         *)
(* Every await of the source is a step of its own, so calls interleave at  *)
(* exactly the points at which the Node event loop can switch between      *)
(* them.  Strings that the code inspects (email addresses, domains) are    *)
(* sequences of one-character strings.                                     *)
(***************************************************************************)
EXTENDS Integers, Sequences, FiniteSets, TLC

VARIABLES
    emails,         \* Email table: sequence of rows, the id is the index
    contacts,       \* Contact table: sequence of rows, the id is the index
    research,       \* CompanyResearch table: sequence of rows
    sendCalls,      \* in-flight sendSavedEmail invocations
    trackResult,    \* what the last updateEmailTracking call returned
    sendsStarted,   \* number of sendSavedEmail invocations so far
    sendEmailCalls, \* per email: number of sendEmail() invocations
    sgSends,        \* per email: number of real sgMail.send() calls
    now,            \* the wall clock read by new Date()
    sgConfigured,   \* isSendGridConfigured(), fixed at module load
    tasks,          \* in-flight researchContactCompany / researchCompany calls
    creators,       \* in-flight createContact invocations
    enrichCalls,    \* number of clearbitClient.enrichCompany() calls so far
    lookupsStarted, \* number of direct researchCompany() calls so far
    finished,       \* the direct researchCompany() calls that have returned:
                    \* the domain argument and the success flag
    faults,         \* number of persistence errors raised so far
    useMock,        \* ClearbitClient.useMock, fixed at construction
    batch,          \* the batchResearchContacts invocation
    sendBatch,      \* the sendBatchEmails invocation
    classified      \* the emails classified so far, with the answers

sendVars == <<emails, sendCalls, trackResult, sendsStarted, sendEmailCalls,
              sgSends, now, sgConfigured>>

researchVars == <<research, tasks, creators, enrichCalls, lookupsStarted,
                  finished, faults, useMock>>

vars == <<contacts, sendVars, researchVars, batch, sendBatch, classified>>

----------------------------------------------------------------------------
(* Bounds *)

MaxEmails == 2
MaxCalls == 2
MaxSends == 2
MaxTime == 2
MaxMsgId == 2
MaxContacts == 2
MaxLookups == 2
MaxFaults == 1
MaxClassified == 2
(* how far below zero the loop index of a batch is told apart; at least   *)
(* MaxContacts                                                            *)
MaxBack == 2

(* null of a nullable timestamp or message id column *)
Null == 0

Users == {1, 2}
EmailIds == 1..MaxEmails
Calls == 1..MaxCalls
(* the slot of the awaited, one-at-a-time calls of Spec *)
SeqCalls == {1}
Times == 1..MaxTime
MsgIds == 1..MaxMsgId
ContactIds == 1..MaxContacts
(* task c runs the research of contact c; task 0 is a direct researchCompany *)
TaskIds == 0..MaxContacts

----------------------------------------------------------------------------
(* Strings: a string is a sequence of one-character strings.  NullStr is   *)
(* the null of a nullable string (it is no sequence of characters).        *)

NullStr == <<"null">>

LowerLetters == {"a", "b", "c", "d", "e", "f", "g", "h", "i", "j", "k", "l", "m", "n", "o", "p", "q", "r", "s", "t", "u", "v", "w", "x", "y", "z"}
UpperLetters == {"A", "B", "C", "D", "E", "F", "G", "H", "I", "J", "K", "L", "M", "N", "O", "P", "Q", "R", "S", "T", "U", "V", "W", "X", "Y", "Z"}
Digits == {"0", "1", "2", "3", "4", "5", "6", "7", "8", "9"}

(* String.prototype.toLowerCase, on one character *)
LowerOf(c) ==
    CASE c = "A" -> "a"
      [] c = "B" -> "b"
      [] c = "C" -> "c"
      [] c = "D" -> "d"
      [] c = "E" -> "e"
      [] c = "F" -> "f"
      [] c = "G" -> "g"
      [] c = "H" -> "h"
      [] c = "I" -> "i"
      [] c = "J" -> "j"
      [] c = "K" -> "k"
      [] c = "L" -> "l"
      [] c = "M" -> "m"
      [] c = "N" -> "n"
      [] c = "O" -> "o"
      [] c = "P" -> "p"
      [] c = "Q" -> "q"
      [] c = "R" -> "r"
      [] c = "S" -> "s"
      [] c = "T" -> "t"
      [] c = "U" -> "u"
      [] c = "V" -> "v"
      [] c = "W" -> "w"
      [] c = "X" -> "x"
      [] c = "Y" -> "y"
      [] c = "Z" -> "z"
      [] OTHER -> c

toLowerCase(s) == [i \in 1..Len(s) |-> LowerOf(s[i])]

(* String.prototype.trim: leading and trailing white space removed *)
RECURSIVE trimStart(_)
trimStart(s) == IF s # <<>> /\ s[1] = " " THEN trimStart(Tail(s)) ELSE s

RECURSIVE trimEnd(_)
trimEnd(s) ==
    IF s # <<>> /\ s[Len(s)] = " " THEN trimEnd(SubSeq(s, 1, Len(s) - 1)) ELSE s

trim(s) == trimEnd(trimStart(s))

(* String.prototype.lastIndexOf / indexOf: 0-based, -1 when absent *)
lastIndexOf(s, c) ==
    IF \E i \in 1..Len(s) : s[i] = c
    THEN (CHOOSE i \in 1..Len(s) :
              s[i] = c /\ \A j \in (i + 1)..Len(s) : s[j] # c) - 1
    ELSE -1

indexOf(s, c) ==
    IF \E i \in 1..Len(s) : s[i] = c
    THEN (CHOOSE i \in 1..Len(s) :
              s[i] = c /\ \A j \in 1..(i - 1) : s[j] # c) - 1
    ELSE -1

(* String.prototype.substring(from), 0-based *)
substring(s, from) == SubSeq(s, from + 1, Len(s))

includes(s, part) ==
    \E i \in 1..(Len(s) - Len(part) + 1) : SubSeq(s, i, i + Len(part) - 1) = part

endsWith(s, suffix) ==
    /\ Len(suffix) <= Len(s)
    /\ SubSeq(s, Len(s) - Len(suffix) + 1, Len(s)) = suffix

(* String.prototype.split('.') *)
RECURSIVE splitDots(_)
splitDots(s) ==
    IF indexOf(s, ".") = -1 THEN <<s>>
    ELSE <<SubSeq(s, 1, indexOf(s, "."))>>
             \o splitDots(substring(s, indexOf(s, ".") + 1))

----------------------------------------------------------------------------
(* lib/emailUtils.ts *)

PERSONAL_EMAIL_DOMAINS ==
    {
      <<"g", "m", "a", "i", "l", ".", "c", "o", "m">>,
      <<"g", "o", "o", "g", "l", "e", "m", "a", "i", "l", ".", "c", "o", "m">>,
      <<"o", "u", "t", "l", "o", "o", "k", ".", "c", "o", "m">>,
      <<"h", "o", "t", "m", "a", "i", "l", ".", "c", "o", "m">>,
      <<"l", "i", "v", "e", ".", "c", "o", "m">>,
      <<"m", "s", "n", ".", "c", "o", "m">>,
      <<"p", "a", "s", "s", "p", "o", "r", "t", ".", "c", "o", "m">>,
      <<"y", "a", "h", "o", "o", ".", "c", "o", "m">>,
      <<"y", "a", "h", "o", "o", ".", "c", "o", ".", "u", "k">>,
      <<"y", "a", "h", "o", "o", ".", "c", "a">>,
      <<"y", "a", "h", "o", "o", ".", "c", "o", "m", ".", "a", "u">>,
      <<"y", "a", "h", "o", "o", ".", "c", "o", ".", "i", "n">>,
      <<"y", "a", "h", "o", "o", ".", "f", "r">>,
      <<"y", "a", "h", "o", "o", ".", "d", "e">>,
      <<"y", "a", "h", "o", "o", ".", "e", "s">>,
      <<"y", "a", "h", "o", "o", ".", "i", "t">>,
      <<"y", "a", "h", "o", "o", ".", "c", "o", ".", "j", "p">>,
      <<"y", "m", "a", "i", "l", ".", "c", "o", "m">>,
      <<"r", "o", "c", "k", "e", "t", "m", "a", "i", "l", ".", "c", "o", "m">>,
      <<"i", "c", "l", "o", "u", "d", ".", "c", "o", "m">>,
      <<"m", "e", ".", "c", "o", "m">>,
      <<"m", "a", "c", ".", "c", "o", "m">>,
      <<"a", "o", "l", ".", "c", "o", "m">>,
      <<"a", "i", "m", ".", "c", "o", "m">>,
      <<"p", "r", "o", "t", "o", "n", "m", "a", "i", "l", ".", "c", "o", "m">>,
      <<"p", "r", "o", "t", "o", "n", ".", "m", "e">>,
      <<"p", "m", ".", "m", "e">>,
      <<"z", "o", "h", "o", ".", "c", "o", "m">>,
      <<"m", "a", "i", "l", ".", "c", "o", "m">>,
      <<"g", "m", "x", ".", "c", "o", "m">>,
      <<"g", "m", "x", ".", "n", "e", "t">>,
      <<"g", "m", "x", ".", "d", "e">>,
      <<"w", "e", "b", ".", "d", "e">>,
      <<"i", "n", "b", "o", "x", ".", "c", "o", "m">>,
      <<"f", "a", "s", "t", "m", "a", "i", "l", ".", "c", "o", "m">>,
      <<"f", "a", "s", "t", "m", "a", "i", "l", ".", "f", "m">>,
      <<"t", "u", "t", "a", "n", "o", "t", "a", ".", "c", "o", "m">>,
      <<"t", "u", "t", "a", "n", "o", "t", "a", ".", "d", "e">>,
      <<"y", "a", "n", "d", "e", "x", ".", "c", "o", "m">>,
      <<"y", "a", "n", "d", "e", "x", ".", "r", "u">>,
      <<"m", "a", "i", "l", ".", "r", "u">>,
      <<"r", "a", "m", "b", "l", "e", "r", ".", "r", "u">>,
      <<"c", "o", "m", "c", "a", "s", "t", ".", "n", "e", "t">>,
      <<"v", "e", "r", "i", "z", "o", "n", ".", "n", "e", "t">>,
      <<"a", "t", "t", ".", "n", "e", "t">>,
      <<"s", "b", "c", "g", "l", "o", "b", "a", "l", ".", "n", "e", "t">>,
      <<"b", "e", "l", "l", "s", "o", "u", "t", "h", ".", "n", "e", "t">>,
      <<"c", "o", "x", ".", "n", "e", "t">>,
      <<"c", "h", "a", "r", "t", "e", "r", ".", "n", "e", "t">>,
      <<"e", "a", "r", "t", "h", "l", "i", "n", "k", ".", "n", "e", "t">>,
      <<"j", "u", "n", "o", ".", "c", "o", "m">>,
      <<"n", "e", "t", "z", "e", "r", "o", ".", "n", "e", "t">>,
      <<"b", "t", "i", "n", "t", "e", "r", "n", "e", "t", ".", "c", "o", "m">>,
      <<"s", "k", "y", ".", "c", "o", "m">>,
      <<"v", "i", "r", "g", "i", "n", "m", "e", "d", "i", "a", ".", "c", "o", "m">>,
      <<"n", "t", "l", "w", "o", "r", "l", "d", ".", "c", "o", "m">>,
      <<"t", "a", "l", "k", "t", "a", "l", "k", ".", "n", "e", "t">>,
      <<"o", "r", "a", "n", "g", "e", ".", "f", "r">>,
      <<"w", "a", "n", "a", "d", "o", "o", ".", "f", "r">>,
      <<"f", "r", "e", "e", ".", "f", "r">>,
      <<"t", "-", "o", "n", "l", "i", "n", "e", ".", "d", "e">>,
      <<"a", "r", "c", "o", "r", ".", "d", "e">>,
      <<"t", "e", "m", "p", "m", "a", "i", "l", ".", "c", "o", "m">>,
      <<"g", "u", "e", "r", "r", "i", "l", "l", "a", "m", "a", "i", "l", ".", "c", "o", "m">>,
      <<"m", "a", "i", "l", "i", "n", "a", "t", "o", "r", ".", "c", "o", "m">>,
      <<"1", "0", "m", "i", "n", "u", "t", "e", "m", "a", "i", "l", ".", "c", "o", "m">>,
      <<"t", "h", "r", "o", "w", "a", "w", "a", "y", ".", "e", "m", "a", "i", "l">>,
      <<"s", "h", "a", "r", "k", "l", "a", "s", "e", "r", "s", ".", "c", "o", "m">>,
      <<"t", "r", "a", "s", "h", "m", "a", "i", "l", ".", "c", "o", "m">>
    }

(* one label of domainRegex: [a-z0-9]([a-z0-9-]*[a-z0-9])? *)
IsLowerLabel(l) ==
    /\ l # <<>>
    /\ \A i \in 1..Len(l) : l[i] \in LowerLetters \cup Digits \cup {"-"}
    /\ l[1] # "-"
    /\ l[Len(l)] # "-"

(* /^[a-z0-9]([a-z0-9-]*[a-z0-9])?(\.[a-z0-9]([a-z0-9-]*[a-z0-9])?)+$/ *)
domainRegexTest(d) ==
    LET labels == splitDots(d)
    IN /\ Len(labels) >= 2
       /\ \A i \in 1..Len(labels) : IsLowerLabel(labels[i])

extractDomainNoPattern(email) ==
    IF email = <<>> THEN NullStr
    ELSE LET trimmed == toLowerCase(trim(email))
             atIndex == lastIndexOf(trimmed, "@")
         IN IF atIndex = -1 \/ atIndex = 0 \/ atIndex = Len(trimmed) - 1
            THEN NullStr
            ELSE substring(trimmed, atIndex + 1)

extractDomain(email) ==
    IF email = <<>> THEN NullStr
    ELSE LET trimmed == toLowerCase(trim(email))
             atIndex == lastIndexOf(trimmed, "@")
         IN IF atIndex = -1 \/ atIndex = 0 \/ atIndex = Len(trimmed) - 1
            THEN NullStr
            ELSE LET domain == substring(trimmed, atIndex + 1)
                 IN IF ~includes(domain, <<".">>) THEN NullStr
                    ELSE IF ~domainRegexTest(domain) THEN NullStr
                    ELSE domain

Str_edu == <<".", "e", "d", "u">>
Str_edu_au == <<".", "e", "d", "u", ".", "a", "u">>
Str_ac_uk == <<".", "a", "c", ".", "u", "k">>
Str_gov == <<".", "g", "o", "v">>
Str_gov_uk == <<".", "g", "o", "v", ".", "u", "k">>
Str_gov_au == <<".", "g", "o", "v", ".", "a", "u">>

isBusinessEmailNoGov(email) ==
    LET domain == extractDomain(email)
    IN IF domain = NullStr THEN FALSE
       ELSE IF domain \in PERSONAL_EMAIL_DOMAINS THEN FALSE
       ELSE IF endsWith(domain, Str_edu) \/ endsWith(domain, Str_edu_au)
                 \/ endsWith(domain, Str_ac_uk) THEN FALSE
       ELSE TRUE

isBusinessEmail(email) ==
    LET domain == extractDomain(email)
    IN IF domain = NullStr THEN FALSE
       ELSE IF domain \in PERSONAL_EMAIL_DOMAINS THEN FALSE
       ELSE IF endsWith(domain, Str_edu) \/ endsWith(domain, Str_edu_au)
                 \/ endsWith(domain, Str_ac_uk) THEN FALSE
       ELSE IF endsWith(domain, Str_gov) \/ endsWith(domain, Str_gov_uk)
                 \/ endsWith(domain, Str_gov_au) THEN FALSE
       ELSE TRUE

(* the characters of the local part of emailRegex; the grave accent, which *)
(* no TLA+ string can hold, is written "grave"                             *)
LocalChars ==
    LowerLetters \cup UpperLetters \cup Digits \cup
    {".", "!", "#", "$", "%", "&", "'", "*", "+", "/", "=", "?", "^", "_",
     "grave", "{", "|", "}", "~", "-"}

(* one label: [a-zA-Z0-9](?:[a-zA-Z0-9-]{0,61}[a-zA-Z0-9])? *)
IsHostLabel(l) ==
    /\ l # <<>>
    /\ Len(l) <= 63
    /\ \A i \in 1..Len(l) :
           l[i] \in LowerLetters \cup UpperLetters \cup Digits \cup {"-"}
    /\ l[1] # "-"
    /\ l[Len(l)] # "-"

emailRegexTest(s) ==
    LET at == indexOf(s, "@")
    IN /\ at >= 1
       /\ \A i \in 1..at : s[i] \in LocalChars
       /\ LET labels == splitDots(substring(s, at + 1))
          IN /\ Len(labels) >= 2
             /\ \A i \in 1..Len(labels) : IsHostLabel(labels[i])

isValidEmail(email) == email # <<>> /\ emailRegexTest(trim(email))

normalizeEmailNoValidation(email) == toLowerCase(trim(email))

normalizeEmail(email) ==
    IF ~isValidEmail(email) THEN NullStr ELSE toLowerCase(trim(email))

NoStr == <<>>
AddrAcme == <<"a", "@", "a", "c", "m", "e", ".", "i", "o">>

----------------------------------------------------------------------------
(* Email statuses: the EmailStatus enum *)

EmailStatus == {"draft", "queued", "sent", "delivered", "opened", "clicked",
                "bounced", "failed"}

TrackingEvents == {"delivered", "opened", "clicked", "bounced"}

(* Errors are tuples: <<>> is "no error" *)
NoError == <<>>
ErrNotFound == <<"Email not found or access denied">>
ErrAlreadySent == <<"Email has already been sent">>
ErrInvalidState(s) == <<"Cannot send email with status: ", s>>
ErrMissingRecipient == <<"Contact does not have an email address">>
ErrSendFallback == <<"Failed to send email">>
(* what sendEmail reports on failure: SendGrid's message, or its default *)
ProviderErrors == {<<"Failed to send email">>, <<"SendGrid: rejected">>}

(* the optional error of a SendEmailResult: `sendResult.error || '...'` *)
OrFallback(err) == IF err = NoError THEN ErrSendFallback ELSE err

----------------------------------------------------------------------------
(* sendSavedEmail: the precondition checks between the read and the first  *)
(* write                                                                   *)

IsAlreadySentOnlyDelivered(status) == status = "delivered"

IsAlreadySent(status) == status \in {"sent", "delivered"}

IsSendable(status) == status \in {"draft", "queued", "failed"}

(* findFirst({ where: { id, userId } }): the row or no row *)
FindEmail(e, u) ==
    IF e \in DOMAIN emails /\ emails[e].userId = u THEN {e} ELSE {}

PrecheckNoRecipientTest(e, u) ==
    IF FindEmail(e, u) = {} THEN ErrNotFound
    ELSE IF IsAlreadySent(emails[e].status) THEN ErrAlreadySent
    ELSE IF ~IsSendable(emails[e].status) THEN ErrInvalidState(emails[e].status)
    ELSE NoError

PrecheckRecipientFirst(e, u) ==
    IF FindEmail(e, u) = {} THEN ErrNotFound
    ELSE IF contacts[emails[e].contactId].email = NoStr THEN ErrMissingRecipient
    ELSE IF IsAlreadySent(emails[e].status) THEN ErrAlreadySent
    ELSE IF ~IsSendable(emails[e].status) THEN ErrInvalidState(emails[e].status)
    ELSE NoError

Precheck(e, u) ==
    IF FindEmail(e, u) = {} THEN ErrNotFound
    ELSE IF IsAlreadySent(emails[e].status) THEN ErrAlreadySent
    ELSE IF ~IsSendable(emails[e].status) THEN ErrInvalidState(emails[e].status)
    ELSE IF contacts[emails[e].contactId].email = NoStr THEN ErrMissingRecipient
    ELSE NoError

IdleCall == [pc |-> "idle", emailId |-> 0, userId |-> 0, sendResult |-> <<>>,
             result |-> <<>>, log |-> <<>>]

NewEmail(u, c) ==
    [userId |-> u, contactId |-> c, status |-> "draft", sentAt |-> Null,
     sendgridMessageId |-> Null, openedAt |-> Null, clickedAt |-> Null,
     bouncedAt |-> Null]

----------------------------------------------------------------------------
(* Records of the research side *)

ResearchStatus == {"pending", "processing", "complete", "failed", "na"}

NullRow == [domain |-> NullStr, data |-> <<"null">>]

NoResult == [success |-> FALSE, domain |-> NullStr, status |-> "none",
             companyResearch |-> NullRow, error |-> NoError]

NoEnrich == [success |-> FALSE, data |-> NullRow, error |-> NoError]

IdleTask == [pc |-> "idle", kind |-> "none", contactId |-> 0,
             domain |-> NullStr, enrich |-> NoEnrich, result |-> NoResult,
             threw |-> FALSE, writes |-> <<>>, fault |-> "none",
             handled |-> FALSE]

NullContact == [userId |-> 0, email |-> NullStr, companyDomain |-> NullStr,
                researchStatus |-> "none", notes |-> NullStr]

IdleBatch == [pc |-> "idle", items |-> <<>>, concurrency |-> 0, i |-> 0,
              results |-> <<>>, threw |-> FALSE]

IdleSendBatch == [pc |-> "idle", emailIds |-> <<>>, userId |-> 0,
                  results |-> <<>>, success |-> 0, failed |-> 0,
                  allDrafts |-> FALSE]

IdleCreator == [pc |-> "idle", userId |-> 0, email |-> NullStr,
                error |-> NoError, contactId |-> 0, contact |-> NullContact]

----------------------------------------------------------------------------
(* lib/sendgrid: the credential and the choice of mock mode *)

startsWith(s, prefix) ==
    Len(s) >= Len(prefix) /\ SubSeq(s, 1, Len(prefix)) = prefix

Rep(c, n) == [i \in 1..n |-> c]

(* process.env.SENDGRID_API_KEY when the variable is not set *)
Undefined == <<"undefined">>

MinKeyLength == 50

(* isPlaceholderKey, lines 24-34 *)
isPlaceholderKey(key) ==
    IF key = Undefined \/ key = <<>> THEN TRUE
    ELSE IF includes(key, <<"y", "o", "u", "r", "-">>)
            \/ includes(key, <<"y", "o", "u", "r", "_">>) THEN TRUE
    ELSE IF includes(key, <<"p", "l", "a", "c", "e", "h", "o", "l", "d", "e", "r">>)
            \/ includes(key, <<"e", "x", "a", "m", "p", "l", "e">>) THEN TRUE
    ELSE IF startsWith(key, <<"S", "G", ".", "t", "e", "s", "t">>)
            \/ startsWith(key, <<"t", "e", "s", "t", "_">>) THEN TRUE
    ELSE IF includes(key, <<"x", "x", "x">>)
            \/ includes(key, <<"X", "X", "X">>) THEN TRUE
    ELSE IF Len(key) < MinKeyLength THEN TRUE
    ELSE FALSE

(* isSendGridConfigured, lines 39-41 *)
isSendGridConfigured(key) ==
    (key # Undefined /\ key # <<>>) /\ ~isPlaceholderKey(key)

(* values of SENDGRID_API_KEY: unset, empty, the placeholders of an        *)
(* example environment file, keys that are too short, and keys of the      *)
(* length of a real one                                                    *)
KeyPrefix == <<"S", "G", ".">>

ApiKeys ==
    { Undefined,
      <<>>,
      <<"y", "o", "u", "r", "-", "k", "e", "y">> \o Rep("a", 60),
      <<"y", "o", "u", "r", "_", "k", "e", "y">> \o Rep("a", 60),
      KeyPrefix \o <<"p", "l", "a", "c", "e", "h", "o", "l", "d", "e", "r">> \o Rep("a", 60),
      KeyPrefix \o <<"e", "x", "a", "m", "p", "l", "e">> \o Rep("a", 60),
      KeyPrefix \o <<"t", "e", "s", "t">> \o Rep("a", 60),
      <<"t", "e", "s", "t", "_">> \o Rep("a", 60),
      KeyPrefix \o Rep("a", 30) \o <<"x", "x", "x">> \o Rep("a", 30),
      KeyPrefix \o Rep("a", 30) \o <<"X", "X", "X">> \o Rep("a", 30),
      KeyPrefix \o Rep("a", 3),
      KeyPrefix \o Rep("a", MinKeyLength - 4),
      KeyPrefix \o Rep("a", MinKeyLength - 3),
      KeyPrefix \o Rep("a", 22) \o <<".">> \o Rep("B", 43) }

----------------------------------------------------------------------------
(* Delivery fixture: the contacts of the send tests, one of them stored    *)
(* with an empty address                                                   *)

FixtureContact(u, addr) ==
    [userId |-> u, email |-> addr, companyDomain |-> NullStr,
     researchStatus |-> "pending", notes |-> NullStr]

SendFixtureContacts ==
    << FixtureContact(1, AddrAcme), FixtureContact(1, NoStr) >>

InitSend ==
    /\ emails = <<>>
    /\ contacts = SendFixtureContacts
    /\ sendCalls = [k \in Calls |-> IdleCall]
    /\ trackResult = FALSE
    /\ sendsStarted = 0
    /\ sendEmailCalls = [e \in EmailIds |-> 0]
    /\ sgSends = [e \in EmailIds |-> 0]
    /\ now = 1
    /\ sgConfigured \in {isSendGridConfigured(key) : key \in ApiKeys}
    /\ research = <<>>
    /\ tasks = [t \in TaskIds |-> IdleTask]
    /\ creators = [k \in Calls |-> IdleCreator]
    /\ enrichCalls = 0
    /\ lookupsStarted = 0
    /\ finished = {}
    /\ faults = 0
    /\ useMock = TRUE
    /\ batch = IdleBatch
    /\ sendBatch = IdleSendBatch
    /\ classified = <<>>

(* POST /api/emails/save *)
SaveEmail(u, c) ==
    /\ Len(emails) < MaxEmails
    /\ c \in DOMAIN contacts
    /\ contacts[c].userId = u
    /\ emails' = Append(emails, NewEmail(u, c))
    /\ UNCHANGED <<sendsStarted, contacts, researchVars, batch, sendBatch, sendCalls, trackResult, sendEmailCalls,
                   sgSends, now, sgConfigured, classified>>

Tick ==
    /\ now < MaxTime
    /\ now' = now + 1
    /\ UNCHANGED <<sendsStarted, emails, contacts, researchVars, batch, sendBatch, sendCalls, trackResult,
                   sendEmailCalls, sgSends, sgConfigured, classified>>

(* sendSavedEmail, lines 49-104: the read and the precondition checks *)
SendFetch(k, e, u) ==
    /\ sendCalls[k].pc = "idle"
    /\ sendsStarted < MaxSends
    /\ sendsStarted' = sendsStarted + 1
    /\ LET err == Precheck(e, u) IN
       sendCalls' = [sendCalls EXCEPT ![k] =
           [pc |-> IF err = NoError THEN "queue" ELSE "done",
            emailId |-> e, userId |-> u, sendResult |-> <<>>,
            result |-> [success |-> FALSE, error |-> err],
            log |-> <<>>]]
    /\ UNCHANGED <<emails, contacts, researchVars, batch, sendBatch, trackResult, sendEmailCalls,
                   sgSends, now, sgConfigured, classified>>

SendQueueNoWrite(k) ==
    /\ sendCalls[k].pc = "queue"
    /\ sendCalls' = [sendCalls EXCEPT ![k].pc = "provider",
                                      ![k].log = Append(@, "queued")]
    /\ UNCHANGED <<emails, sendsStarted, contacts, researchVars, batch, sendBatch, trackResult,
                   sendEmailCalls, sgSends, now, sgConfigured, classified>>

(* lines 106-110: status := queued *)
SendQueue(k) ==
    /\ sendCalls[k].pc = "queue"
    /\ emails' = [emails EXCEPT ![sendCalls[k].emailId].status = "queued"]
    /\ sendCalls' = [sendCalls EXCEPT ![k].pc = "provider",
                                      ![k].log = Append(@, "queued")]
    /\ UNCHANGED <<sendsStarted, contacts, researchVars, batch, sendBatch, trackResult, sendEmailCalls, sgSends, now, sgConfigured, classified>>

(* sendEmail of lib/sendgrid: the outcomes of one invocation *)
SendEmailOutcomesMockMayFail ==
    {[success |-> TRUE, messageId |-> m, error |-> NoError,
      mockMode |-> ~sgConfigured] : m \in MsgIds}
    \cup
    {[success |-> FALSE, messageId |-> Null, error |-> er,
      mockMode |-> ~sgConfigured] : er \in ProviderErrors}

SendEmailOutcomes ==
    IF ~sgConfigured
    THEN {[success |-> TRUE, messageId |-> m, error |-> NoError,
           mockMode |-> TRUE] : m \in MsgIds}
    ELSE {[success |-> TRUE, messageId |-> m, error |-> NoError,
           mockMode |-> FALSE] : m \in MsgIds}
         \cup
         {[success |-> FALSE, messageId |-> Null, error |-> er,
           mockMode |-> FALSE] : er \in ProviderErrors}

(* lines 112-119: await sendEmail(...) *)
SendProvider(k) ==
    /\ sendCalls[k].pc = "provider"
    /\ \E r \in SendEmailOutcomes :
         sendCalls' = [sendCalls EXCEPT ![k].pc = "record",
                                        ![k].sendResult = r,
                                        ![k].log = Append(@, "provider")]
    /\ sendEmailCalls' = [sendEmailCalls EXCEPT ![sendCalls[k].emailId] = @ + 1]
    /\ sgSends' = IF sgConfigured
                  THEN [sgSends EXCEPT ![sendCalls[k].emailId] = @ + 1]
                  ELSE sgSends
    /\ UNCHANGED <<sendsStarted, emails, contacts, researchVars, batch, sendBatch, trackResult, now,
                   sgConfigured, classified>>

(* lines 121-153: record the provider's outcome *)
SendRecord(k) ==
    /\ sendCalls[k].pc = "record"
    /\ LET e == sendCalls[k].emailId
           r == sendCalls[k].sendResult
       IN IF r.success
          THEN /\ emails' = [emails EXCEPT ![e].status = "sent",
                                           ![e].sentAt = now,
                                           ![e].sendgridMessageId = r.messageId]
               /\ sendCalls' = [sendCalls EXCEPT
                      ![k].pc = "done",
                      ![k].log = Append(@, "sent"),
                      ![k].result = [success |-> TRUE, error |-> NoError]]
          ELSE /\ emails' = [emails EXCEPT ![e].status = "failed"]
               /\ sendCalls' = [sendCalls EXCEPT
                      ![k].pc = "done",
                      ![k].log = Append(@, "failed"),
                      ![k].result = [success |-> FALSE,
                                     error |-> OrFallback(r.error)]]
    /\ UNCHANGED <<sendsStarted, contacts, researchVars, batch, sendBatch, trackResult, sendEmailCalls, sgSends, now, sgConfigured, classified>>

(* the promise of sendSavedEmail resolves *)
SendReturn(k) ==
    /\ sendCalls[k].pc = "done"
    /\ sendCalls' = [sendCalls EXCEPT ![k] = IdleCall]
    /\ UNCHANGED <<sendsStarted, emails, contacts, researchVars, batch, sendBatch, trackResult, sendEmailCalls,
                   sgSends, now, sgConfigured, classified>>

(* updateEmailTracking, lines 214-222: findFirst({ where: { sendgridMessageId } }) *)
(* without orderBy returns any one of the matching rows                      *)
MatchingEmails(m) == {e \in DOMAIN emails : emails[e].sendgridMessageId = m}

TrackingUpdateStatusOnly(row, event) == [row EXCEPT !.status = event]

(* lines 224-243: the update built from the event *)
TrackingUpdate(row, event) ==
    IF event = "delivered" THEN [row EXCEPT !.status = "delivered"]
    ELSE IF event = "opened" THEN [row EXCEPT !.status = "opened", !.openedAt = now]
    ELSE IF event = "clicked" THEN [row EXCEPT !.status = "clicked", !.clickedAt = now]
    ELSE [row EXCEPT !.status = "bounced", !.bouncedAt = now]

(* updateEmailTracking, lines 210-255 *)
updateEmailTracking(m, event) ==
    IF MatchingEmails(m) = {}
    THEN /\ trackResult' = FALSE
         /\ UNCHANGED emails
    ELSE \E e \in MatchingEmails(m) :
           /\ emails' = [emails EXCEPT ![e] = TrackingUpdate(@, event)]
           /\ trackResult' = TRUE

Track(m, event) ==
    /\ updateEmailTracking(m, event)
    /\ UNCHANGED <<sendsStarted, contacts, researchVars, batch, sendBatch, sendCalls, sendEmailCalls, sgSends,
                   now, sgConfigured, classified>>

(* getEmailStats, lines 260-299 *)

(* groupBy({ by: ['status'], where: { userId } }): one group per status    *)
(* that an email of the user has, with its count                           *)
StatusGroups(u) ==
    {[status |-> st,
      count |-> Cardinality({e \in DOMAIN emails :
                    emails[e].userId = u /\ emails[e].status = st})] :
        st \in {emails[e].status : e \in {x \in DOMAIN emails :
                                           emails[x].userId = u}}}

(* lines 276-286: the keys of the accumulator *)
StatsKeys == {"total", "draft", "sent", "delivered", "opened", "clicked",
              "bounced", "failed", "queued"}

RECURSIVE SumCounts(_)
SumCounts(groups) ==
    IF groups = {} THEN 0
    ELSE LET g == CHOOSE x \in groups : TRUE
         IN g.count + SumCounts(groups \ {g})

(* lines 276-298 without the zero defaults *)
getEmailStatsGroupsOnly(u) ==
    [k \in {"total"} \cup ({g.status : g \in StatusGroups(u)} \ {"queued"}) |->
        IF k = "total" THEN SumCounts(StatusGroups(u))
        ELSE (CHOOSE g \in StatusGroups(u) : g.status = k).count]

(* lines 276-298: the accumulator after the loop, then `queued` is taken   *)
(* out of the object that is returned                                      *)
getEmailStats(u) ==
    LET groups == StatusGroups(u)
        stats == [k \in StatsKeys |->
                    IF k = "total" THEN SumCounts(groups)
                    ELSE IF \E g \in groups : g.status = k
                         THEN (CHOOSE g \in groups : g.status = k).count
                         ELSE 0]
    IN [k \in StatsKeys \ {"queued"} |-> stats[k]]

NextSend ==
    \/ \E u \in Users, c \in DOMAIN contacts : SaveEmail(u, c)
    \/ Tick
    \/ \E k \in SeqCalls, e \in EmailIds, u \in Users : SendFetch(k, e, u)
    \/ \E k \in SeqCalls : SendQueue(k)
    \/ \E k \in SeqCalls : SendProvider(k)
    \/ \E k \in SeqCalls : SendRecord(k)
    \/ \E k \in SeqCalls : SendReturn(k)
    \/ \E m \in MsgIds, ev \in TrackingEvents : Track(m, ev)

Spec == InitSend /\ [][NextSend]_vars

----------------------------------------------------------------------------
(* PATCH /api/emails/:emailId: the owner sets the status of a stored email  *)
(* to one of validStatuses (subject and body are not part of the state)    *)

PatchStatuses == {"draft", "sent", "failed"}

PatchEmail(e, u, st) ==
    /\ FindEmail(e, u) # {}
    /\ st \in PatchStatuses
    /\ emails' = [emails EXCEPT ![e].status = st]
    /\ UNCHANGED <<sendsStarted, contacts, researchVars, batch, sendBatch,
                   sendCalls, trackResult, sendEmailCalls, sgSends, now,
                   sgConfigured, classified>>

NextSendPatch ==
    \/ \E u \in Users, c \in DOMAIN contacts : SaveEmail(u, c)
    \/ \E e \in EmailIds, u \in Users, st \in PatchStatuses : PatchEmail(e, u, st)
    \/ \E k \in SeqCalls, e \in EmailIds, u \in Users : SendFetch(k, e, u)
    \/ \E k \in SeqCalls : SendQueue(k)
    \/ \E k \in SeqCalls : SendProvider(k)
    \/ \E k \in SeqCalls : SendRecord(k)
    \/ \E k \in SeqCalls : SendReturn(k)
    \/ \E m \in MsgIds, ev \in TrackingEvents : Track(m, ev)

SpecSendPatch == InitSend /\ [][NextSendPatch]_vars

----------------------------------------------------------------------------
(* sendSavedEmail when a call to the store rejects: the catch block,       *)
(* lines 154-171                                                           *)

ErrPersistence == <<"PrismaClientKnownRequestError">>

(* the findFirst of lines 54-68 rejects *)
SendFetchFault(k, e, u) ==
    /\ sendCalls[k].pc = "idle"
    /\ sendsStarted < MaxSends
    /\ faults < MaxFaults
    /\ sendsStarted' = sendsStarted + 1
    /\ faults' = faults + 1
    /\ sendCalls' = [sendCalls EXCEPT ![k] =
           [pc |-> "catch", emailId |-> e, userId |-> u, sendResult |-> <<>>,
            result |-> [success |-> FALSE, error |-> NoError],
            log |-> <<>>]]
    /\ UNCHANGED <<emails, contacts, trackResult, sendEmailCalls, sgSends, now,
                   sgConfigured, research, tasks, creators, enrichCalls,
                   lookupsStarted, finished, useMock, batch, sendBatch, classified>>

(* the update of line 107, or the one of lines 123 / 144, rejects *)
SendWriteFault(k) ==
    /\ sendCalls[k].pc \in {"queue", "record"}
    /\ faults < MaxFaults
    /\ faults' = faults + 1
    /\ sendCalls' = [sendCalls EXCEPT ![k].pc = "catch"]
    /\ UNCHANGED <<emails, sendsStarted, contacts, trackResult, sendEmailCalls,
                   sgSends, now, sgConfigured, research, tasks, creators,
                   enrichCalls, lookupsStarted, finished, useMock, batch,
                   sendBatch, classified>>

(* lines 154-171: update({ where: { id }, data: { status: 'failed' } }),   *)
(* whose own rejection is ignored; then the error is returned              *)
SendCatch(k) ==
    /\ sendCalls[k].pc = "catch"
    /\ LET e == sendCalls[k].emailId
           res == [success |-> FALSE, error |-> ErrPersistence]
       IN \/ /\ e \in DOMAIN emails
             /\ emails' = [emails EXCEPT ![e].status = "failed"]
             /\ sendCalls' = [sendCalls EXCEPT ![k].pc = "done",
                                               ![k].log = Append(@, "failed"),
                                               ![k].result = res]
             /\ UNCHANGED faults
          \/ /\ e \notin DOMAIN emails
             /\ sendCalls' = [sendCalls EXCEPT ![k].pc = "done",
                                               ![k].result = res]
             /\ UNCHANGED <<emails, faults>>
          \/ /\ e \in DOMAIN emails
             /\ faults < MaxFaults
             /\ faults' = faults + 1
             /\ sendCalls' = [sendCalls EXCEPT ![k].pc = "done",
                                               ![k].result = res]
             /\ UNCHANGED emails
    /\ UNCHANGED <<sendsStarted, contacts, trackResult, sendEmailCalls, sgSends,
                   now, sgConfigured, research, tasks, creators, enrichCalls,
                   lookupsStarted, finished, useMock, batch, sendBatch, classified>>

NextSendFault ==
    \/ \E u \in Users, c \in DOMAIN contacts : SaveEmail(u, c)
    \/ \E k \in SeqCalls, e \in EmailIds, u \in Users : SendFetch(k, e, u)
    \/ \E k \in SeqCalls, e \in EmailIds, u \in Users : SendFetchFault(k, e, u)
    \/ \E k \in SeqCalls : SendQueue(k)
    \/ \E k \in SeqCalls : SendProvider(k)
    \/ \E k \in SeqCalls : SendRecord(k)
    \/ \E k \in SeqCalls : SendWriteFault(k)
    \/ \E k \in SeqCalls : SendCatch(k)
    \/ \E k \in SeqCalls : SendReturn(k)
    \/ \E m \in MsgIds, ev \in TrackingEvents : Track(m, ev)

SpecSendFault == InitSend /\ [][NextSendFault]_vars

----------------------------------------------------------------------------
(* sendSavedEmail calls that overlap: each call runs up to its next await  *)
(* while the others are suspended                                          *)

NextSendRace ==
    \/ \E u \in Users, c \in DOMAIN contacts : SaveEmail(u, c)
    \/ Tick
    \/ \E k \in Calls, e \in EmailIds, u \in Users : SendFetch(k, e, u)
    \/ \E k \in Calls : SendQueue(k)
    \/ \E k \in Calls : SendProvider(k)
    \/ \E k \in Calls : SendRecord(k)
    \/ \E k \in Calls : SendReturn(k)

SpecSendRace == InitSend /\ [][NextSendRace]_vars

----------------------------------------------------------------------------
(* sendBatchEmails *)

RECURSIVE ListsUpTo(_, _)
ListsUpTo(S, n) ==
    IF n = 0 THEN {<<>>}
    ELSE ListsUpTo(S, n - 1)
         \cup {Append(l, x) : l \in ListsUpTo(S, n - 1), x \in S}

(* a draft of the caller whose contact has an address *)
IsDraftWithRecipient(e, u) ==
    /\ FindEmail(e, u) # {}
    /\ emails[e].status = "draft"
    /\ contacts[emails[e].contactId].email # NoStr

(* lines 177-187: the call; allDrafts notes what the ids were at the call *)
SendBatchStart(ids, u) ==
    /\ sendBatch.pc = "idle"
    /\ sendCalls[1].pc = "idle"
    /\ sendBatch' = [IdleSendBatch EXCEPT
           !.pc = "loop", !.emailIds = ids, !.userId = u,
           !.allDrafts = \A j \in 1..Len(ids) : IsDraftWithRecipient(ids[j], u)]
    /\ UNCHANGED <<contacts, sendVars, researchVars, batch, classified>>

(* lines 189-190: the next id is handed to sendSavedEmail *)
SendBatchItem ==
    /\ sendBatch.pc = "loop"
    /\ Len(sendBatch.results) < Len(sendBatch.emailIds)
    /\ SendFetch(1, sendBatch.emailIds[Len(sendBatch.results) + 1],
                 sendBatch.userId)

(* lines 189-190 when the read of that call rejects *)
SendBatchItemFault ==
    /\ sendBatch.pc = "loop"
    /\ Len(sendBatch.results) < Len(sendBatch.emailIds)
    /\ SendFetchFault(1, sendBatch.emailIds[Len(sendBatch.results) + 1],
                      sendBatch.userId)

SendBatchCollectStopsOnFailure ==
    /\ sendBatch.pc = "loop"
    /\ sendCalls[1].pc = "done"
    /\ sendBatch' = [sendBatch EXCEPT
           !.results = Append(@, [emailId |-> sendCalls[1].emailId,
                                  success |-> sendCalls[1].result.success,
                                  error |-> sendCalls[1].result.error]),
           !.success = IF sendCalls[1].result.success THEN @ + 1 ELSE @,
           !.failed = IF sendCalls[1].result.success THEN @ ELSE @ + 1,
           !.pc = IF sendCalls[1].result.success THEN "loop" ELSE "done"]
    /\ sendCalls' = [sendCalls EXCEPT ![1] = IdleCall]
    /\ UNCHANGED <<sendsStarted, emails, contacts, researchVars, batch,
                   trackResult, sendEmailCalls, sgSends, now, sgConfigured, classified>>

(* lines 190-202: the awaited call has returned; push and count *)
SendBatchCollect ==
    /\ sendBatch.pc = "loop"
    /\ sendCalls[1].pc = "done"
    /\ sendBatch' = [sendBatch EXCEPT
           !.results = Append(@, [emailId |-> sendCalls[1].emailId,
                                  success |-> sendCalls[1].result.success,
                                  error |-> sendCalls[1].result.error]),
           !.success = IF sendCalls[1].result.success THEN @ + 1 ELSE @,
           !.failed = IF sendCalls[1].result.success THEN @ ELSE @ + 1]
    /\ sendCalls' = [sendCalls EXCEPT ![1] = IdleCall]
    /\ UNCHANGED <<sendsStarted, emails, contacts, researchVars, batch,
                   trackResult, sendEmailCalls, sgSends, now, sgConfigured, classified>>

(* line 204: the loop is over *)
SendBatchReturn ==
    /\ sendBatch.pc = "loop"
    /\ sendCalls[1].pc = "idle"
    /\ Len(sendBatch.results) = Len(sendBatch.emailIds)
    /\ sendBatch' = [sendBatch EXCEPT !.pc = "done"]
    /\ UNCHANGED <<contacts, sendVars, researchVars, batch, classified>>

NextSendBatch ==
    \/ \E u \in Users, c \in DOMAIN contacts :
           sendBatch.pc = "idle" /\ SaveEmail(u, c)
    \/ Tick
    \/ \E ids \in ListsUpTo(EmailIds, MaxSends), u \in Users :
           SendBatchStart(ids, u)
    \/ SendBatchItem
    \/ SendBatchItemFault
    \/ SendQueue(1)
    \/ SendProvider(1)
    \/ SendRecord(1)
    \/ SendWriteFault(1)
    \/ SendCatch(1)
    \/ SendBatchCollect
    \/ SendBatchReturn

SpecSendBatch == InitSend /\ [][NextSendBatch]_vars

----------------------------------------------------------------------------
(* lib/clearbit.ts *)

(* /^(?:[a-zA-Z0-9](?:[a-zA-Z0-9-]{0,61}[a-zA-Z0-9])?\.)+[a-zA-Z]{2,}$/ *)
isValidDomain(d) ==
    \E labels \in {splitDots(d)} : \E tld \in {labels[Len(labels)]} :
       /\ Len(labels) >= 2
       /\ \A i \in 1..(Len(labels) - 1) : IsHostLabel(labels[i])
       /\ Len(tld) >= 2
       /\ \A i \in 1..Len(tld) : tld[i] \in LowerLetters \cup UpperLetters

notFoundDomains ==
    { <<"u", "n", "k", "n", "o", "w", "n", "-", "d", "o", "m", "a", "i", "n",
        ".", "c", "o", "m">>,
      <<"f", "a", "k", "e", "-", "c", "o", "m", "p", "a", "n", "y", ".", "x",
        "y", "z">>,
      <<"t", "e", "s", "t", "1", "2", "3", ".", "n", "e", "t">> }

EnrichError(code) == [success |-> FALSE, data |-> NullRow, error |-> <<code>>]

(* getMockData: the same profile for the same domain *)
getMockData(domain) ==
    IF \E d \in notFoundDomains : includes(toLowerCase(domain), d)
    THEN EnrichError("NOT_FOUND")
    ELSE [success |-> TRUE,
          data |-> [domain |-> domain, data |-> <<"mock", domain>>],
          error |-> NoError]

(* the profiles the real provider may answer with *)
Payloads == {<<"clearbit", 1>>, <<"clearbit", 2>>}

(* callClearbitApi: every failure is caught and returned *)
callClearbitApi(domain) ==
    {[success |-> TRUE, data |-> [domain |-> domain, data |-> p],
      error |-> NoError] : p \in Payloads}
    \cup {EnrichError(c) : c \in {"NOT_FOUND", "RATE_LIMITED", "API_ERROR"}}

(* enrichCompany: the results one call may return *)
enrichCompany(domain) ==
    IF ~isValidDomain(domain) THEN {EnrichError("INVALID_DOMAIN")}
    ELSE IF useMock THEN {getMockData(domain)}
    ELSE callClearbitApi(domain)

----------------------------------------------------------------------------
(* services/research.service.ts *)

(* prisma.companyResearch.findUnique({ where: { domain } }) *)
findResearch(d) == {i \in DOMAIN research : research[i].domain = d}

saveCompanyResearchInsertOnly(data) == Append(research, data)

(* saveCompanyResearch: upsert keyed by data.domain *)
saveCompanyResearch(data) ==
    IF findResearch(data.domain) = {}
    THEN Append(research, data)
    ELSE [i \in DOMAIN research |->
             IF research[i].domain = data.domain THEN data ELSE research[i]]

(* updateContactResearchStatus *)
updateContactResearchStatus(c, status) ==
    [contacts EXCEPT ![c].researchStatus = status]

(* a researchCompany call returns r: to its caller, or into the try block  *)
(* of researchContactCompany                                               *)
ReturnResearch(t, r) ==
    /\ tasks' = [tasks EXCEPT
           ![t].result = r,
           ![t].pc = IF tasks[t].kind = "contact" THEN "writeStatus" ELSE "done"]
    /\ finished' = IF tasks[t].kind = "company"
                   THEN finished \cup {[domain |-> tasks[t].domain, success |-> r.success]}
                   ELSE finished

TaskMarkProcessingSkipped(t) ==
    /\ tasks[t].pc = "markProcessing"
    /\ tasks' = [tasks EXCEPT ![t].pc = "lookup"]
    /\ UNCHANGED <<contacts, sendVars, batch, sendBatch, research, creators, enrichCalls,
                   lookupsStarted, finished, faults, useMock, classified>>

(* researchContactCompany, line 355: mark the contact as processing *)
TaskMarkProcessing(t) ==
    /\ tasks[t].pc = "markProcessing"
    /\ contacts' = updateContactResearchStatus(tasks[t].contactId, "processing")
    /\ tasks' = [tasks EXCEPT ![t].pc = "lookup",
                              ![t].writes = Append(@, "processing")]
    /\ UNCHANGED <<sendVars, batch, sendBatch, research, creators, enrichCalls, lookupsStarted,
                   finished, faults, useMock, classified>>

(* a direct call of researchCompany(domain), as the test route makes it *)
StartLookup(domain) ==
    /\ tasks[0].pc = "idle"
    /\ lookupsStarted < MaxLookups
    /\ lookupsStarted' = lookupsStarted + 1
    /\ tasks' = [tasks EXCEPT ![0] =
                    [IdleTask EXCEPT !.pc = "lookup", !.kind = "company",
                                     !.domain = domain, !.handled = TRUE]]
    /\ UNCHANGED <<contacts, sendVars, batch, sendBatch, research, creators, enrichCalls,
                   finished, faults, useMock, classified>>

normalizedDomainTrimOnly(t) == trim(tasks[t].domain)

(* researchCompany, line 236 *)
normalizedDomain(t) == trim(toLowerCase(tasks[t].domain))

(* researchCompany, lines 236-251: the cache lookup *)
TaskLookup(t) ==
    /\ tasks[t].pc = "lookup"
    /\ \E nd \in {normalizedDomain(t)} :
         IF findResearch(nd) # {}
         THEN \E i \in findResearch(nd) :
                ReturnResearch(t, [success |-> TRUE,
                                   domain |-> nd,
                                   status |-> "complete",
                                   companyResearch |-> research[i],
                                   error |-> NoError])
         ELSE /\ tasks' = [tasks EXCEPT ![t].pc = "enrich"]
              /\ UNCHANGED finished
    /\ UNCHANGED <<contacts, sendVars, batch, sendBatch, research, creators, enrichCalls,
                   lookupsStarted, faults, useMock, classified>>

TaskEnrichStoresFailure(t) ==
    /\ tasks[t].pc = "enrich"
    /\ enrichCalls' = enrichCalls + 1
    /\ \E nd \in {normalizedDomain(t)} : \E r \in enrichCompany(nd) :
         IF r.success
         THEN /\ tasks' = [tasks EXCEPT ![t].pc = "save", ![t].enrich = r]
              /\ UNCHANGED <<finished, research>>
         ELSE /\ research' = saveCompanyResearch([domain |-> nd, data |-> r.error])
              /\ ReturnResearch(t, [success |-> FALSE,
                                    domain |-> nd,
                                    status |-> "failed",
                                    companyResearch |-> NullRow,
                                    error |-> r.error])
    /\ UNCHANGED <<contacts, sendVars, batch, sendBatch, creators, lookupsStarted,
                   faults, useMock, classified>>

(* researchCompany, lines 255-269: the enrichment call and its failure *)
TaskEnrich(t) ==
    /\ tasks[t].pc = "enrich"
    /\ enrichCalls' = enrichCalls + 1
    /\ \E nd \in {normalizedDomain(t)} : \E r \in enrichCompany(nd) :
         IF r.success
         THEN /\ tasks' = [tasks EXCEPT ![t].pc = "save", ![t].enrich = r]
              /\ UNCHANGED finished
         ELSE ReturnResearch(t, [success |-> FALSE,
                                 domain |-> nd,
                                 status |-> "failed",
                                 companyResearch |-> NullRow,
                                 error |-> r.error])
    /\ UNCHANGED <<contacts, sendVars, batch, sendBatch, research, creators, lookupsStarted,
                   faults, useMock, classified>>

TaskSaveNoStore(t) ==
    /\ tasks[t].pc = "save"
    /\ \E nd \in {normalizedDomain(t)} :
         ReturnResearch(t, [success |-> TRUE,
                            domain |-> nd,
                            status |-> "complete",
                            companyResearch |-> tasks[t].enrich.data,
                            error |-> NoError])
    /\ UNCHANGED <<contacts, sendVars, batch, sendBatch, research, creators, enrichCalls,
                   lookupsStarted, faults, useMock, classified>>

(* researchCompany, lines 271-283: store the profile *)
TaskSave(t) ==
    /\ tasks[t].pc = "save"
    /\ research' = saveCompanyResearch(tasks[t].enrich.data)
    /\ \E nd \in {normalizedDomain(t)} :
         ReturnResearch(t, [success |-> TRUE,
                            domain |-> nd,
                            status |-> "complete",
                            companyResearch |-> tasks[t].enrich.data,
                            error |-> NoError])
    /\ UNCHANGED <<contacts, sendVars, batch, sendBatch, creators, enrichCalls, lookupsStarted,
                   faults, useMock, classified>>

TaskWriteStatusSkipped(t) ==
    /\ tasks[t].pc = "writeStatus"
    /\ tasks' = [tasks EXCEPT ![t].pc = "done"]
    /\ UNCHANGED <<contacts, sendVars, batch, sendBatch, research, creators, enrichCalls,
                   lookupsStarted, finished, faults, useMock, classified>>

(* researchContactCompany, lines 360-364: complete or failed *)
TaskWriteStatus(t) ==
    /\ tasks[t].pc = "writeStatus"
    /\ LET newStatus == IF tasks[t].result.success THEN "complete" ELSE "failed"
       IN /\ contacts' = updateContactResearchStatus(tasks[t].contactId, newStatus)
          /\ tasks' = [tasks EXCEPT ![t].pc = "done",
                                    ![t].writes = Append(@, newStatus)]
    /\ UNCHANGED <<sendVars, batch, sendBatch, research, creators, enrichCalls, lookupsStarted,
                   finished, faults, useMock, classified>>

(* researchContactCompany, lines 365-377: the catch block *)
TaskCatch(t) ==
    /\ tasks[t].pc = "catch"
    /\ contacts' = updateContactResearchStatus(tasks[t].contactId, "failed")
    /\ tasks' = [tasks EXCEPT
           ![t].pc = "done",
           ![t].writes = Append(@, "failed"),
           ![t].result = [success |-> FALSE, domain |-> tasks[t].domain,
                          status |-> "failed", companyResearch |-> NullRow,
                          error |-> <<"Research failed: ", tasks[t].fault>>]]
    /\ UNCHANGED <<sendVars, batch, sendBatch, research, creators, enrichCalls, lookupsStarted,
                   finished, faults, useMock, classified>>

(* the promise settles: the caller, or the then/catch handlers of          *)
(* createContact, take the outcome                                         *)
TaskReturn(t) ==
    /\ tasks[t].pc = "done"
    /\ tasks' = [tasks EXCEPT ![t] = IdleTask]
    /\ UNCHANGED <<contacts, sendVars, batch, sendBatch, research, creators, enrichCalls,
                   lookupsStarted, finished, faults, useMock, classified>>

(* a persistence call of the task rejects: inside the try block the catch  *)
(* block takes over, outside of it the rejection leaves the function       *)
PersistenceSteps == {"markProcessing", "lookup", "save", "writeStatus", "catch"}

TaskFault(t) ==
    /\ tasks[t].pc \in PersistenceSteps
    /\ faults < MaxFaults
    /\ faults' = faults + 1
    /\ IF tasks[t].kind = "contact" /\ tasks[t].pc \in {"lookup", "save", "writeStatus"}
       THEN tasks' = [tasks EXCEPT ![t].pc = "catch", ![t].fault = tasks[t].pc]
       ELSE tasks' = [tasks EXCEPT ![t].pc = "done", ![t].threw = TRUE,
                                   ![t].fault = tasks[t].pc]
    /\ UNCHANGED <<contacts, sendVars, batch, sendBatch, research, creators, enrichCalls,
                   lookupsStarted, finished, useMock, classified>>

----------------------------------------------------------------------------
(* services/contacts.service.ts *)

ErrInvalidEmail == <<"Invalid email address">>
ErrDuplicate == <<"Contact with this email already exists">>
ErrUniqueConstraint == <<"Unique constraint failed on (userId, email)">>

(* prisma.contact.findUnique({ where: { userId_email } }) *)
findContact(u, email) ==
    {c \in DOMAIN contacts : contacts[c].userId = u /\ contacts[c].email = email}

NewContactKeepsDomain(u, email) ==
    [userId |-> u, email |-> email,
     companyDomain |-> extractDomain(email),
     researchStatus |-> IF isBusinessEmail(email) THEN "pending" ELSE "na",
     notes |-> NullStr]

(* the row of lines 71-84 *)
NewContact(u, email) ==
    [userId |-> u, email |-> email,
     companyDomain |-> IF isBusinessEmail(email) THEN extractDomain(email)
                       ELSE NullStr,
     researchStatus |-> IF isBusinessEmail(email) THEN "pending" ELSE "na",
     notes |-> NullStr]

(* createContact, lines 46-64: validation and the duplicate lookup *)
CreateCheck(k, u, input) ==
    /\ creators[k].pc = "idle"
    /\ Len(contacts) < MaxContacts
    /\ LET normalizedEmail == normalizeEmail(input)
           err == IF normalizedEmail = NullStr THEN ErrInvalidEmail
                  ELSE IF findContact(u, normalizedEmail) # {} THEN ErrDuplicate
                  ELSE NoError
       IN creators' = [creators EXCEPT ![k] =
              [pc |-> IF err = NoError THEN "create" ELSE "done",
               userId |-> u, email |-> normalizedEmail, error |-> err,
               contactId |-> 0, contact |-> NullContact]]
    /\ UNCHANGED <<contacts, sendVars, batch, sendBatch, research, tasks, enrichCalls,
                   lookupsStarted, finished, faults, useMock, classified>>

(* the notes an updateContact caller passes: none, null, a text, blanks *)
NoteInputs == {Undefined, NullStr, <<"n">>, <<" ">>}

(* input.notes?.trim() || null *)
trimOrNull(s) ==
    IF s = Undefined \/ s = NullStr \/ trim(s) = <<>> THEN NullStr ELSE trim(s)

UpdateDataWithStatus(existing, input) ==
    [notes |-> IF input # Undefined THEN trimOrNull(input) ELSE existing.notes,
     researchStatus |-> existing.researchStatus]

(* updateContact, lines 145-152: the fields of the update (notes stands    *)
(* for firstName, lastName, title, company, phone and notes)               *)
UpdateData(existing, input) ==
    [notes |-> IF input # Undefined THEN trimOrNull(input) ELSE existing.notes]

(* prisma update: the fields of data replace those of the row *)
ApplyData(row, data) ==
    [f \in DOMAIN row |-> IF f \in DOMAIN data THEN data[f] ELSE row[f]]

(* updateContact, lines 137-141: getContactById(userId, contactId) *)
UpdateFetch(k, u, c) ==
    /\ creators[k].pc = "idle"
    /\ LET existing == IF c \in DOMAIN contacts /\ contacts[c].userId = u
                       THEN contacts[c] ELSE NullContact
       IN creators' = [creators EXCEPT ![k] =
              [IdleCreator EXCEPT !.pc = IF existing = NullContact
                                         THEN "done" ELSE "update",
                                  !.userId = u, !.contactId = c,
                                  !.contact = existing]]
    /\ UNCHANGED <<contacts, sendVars, batch, sendBatch, research, tasks, enrichCalls,
                   lookupsStarted, finished, faults, useMock, classified>>

(* updateContact, lines 143-153: the update by id *)
UpdateWrite(k, input) ==
    /\ creators[k].pc = "update"
    /\ LET c == creators[k].contactId
           row == ApplyData(contacts[c], UpdateData(creators[k].contact, input))
       IN /\ contacts' = [contacts EXCEPT ![c] = row]
          /\ creators' = [creators EXCEPT ![k].pc = "done", ![k].contact = row]
    /\ UNCHANGED <<sendVars, batch, sendBatch, research, tasks, enrichCalls,
                   lookupsStarted, finished, faults, useMock, classified>>

(* updateContact returns the row or null *)
UpdateReturn(k) ==
    /\ creators[k].pc = "done"
    /\ creators' = [creators EXCEPT ![k] = IdleCreator]
    /\ UNCHANGED <<contacts, sendVars, batch, sendBatch, research, tasks, enrichCalls,
                   lookupsStarted, finished, faults, useMock, classified>>

(* whether lines 86-96 start the research of the new row *)
TriggersResearch(email) ==
    isBusinessEmail(email) /\ extractDomain(email) # NullStr

StartedResearchNoCatch(c, domain) ==
    [IdleTask EXCEPT !.pc = "markProcessing", !.kind = "contact",
                     !.contactId = c, !.domain = domain]

(* createContact, lines 89-96: the research call with its then and catch   *)
(* handlers, not awaited                                                   *)
StartedResearch(c, domain) ==
    [IdleTask EXCEPT !.pc = "markProcessing", !.kind = "contact",
                     !.contactId = c, !.domain = domain, !.handled = TRUE]

(* createContact, lines 66-101: insert the row and trigger the research *)
CreateInsert(k) ==
    /\ creators[k].pc = "create"
    /\ LET u == creators[k].userId
           email == creators[k].email
           c == Len(contacts) + 1
       IN IF findContact(u, email) # {}
          THEN /\ creators' = [creators EXCEPT ![k].pc = "done",
                                               ![k].error = ErrUniqueConstraint]
               /\ UNCHANGED <<contacts, tasks>>
          ELSE /\ contacts' = Append(contacts, NewContact(u, email))
               /\ creators' = [creators EXCEPT ![k].pc = "done",
                                               ![k].contactId = c,
                                               ![k].contact = NewContact(u, email)]
               /\ IF TriggersResearch(email)
                  THEN tasks' = [tasks EXCEPT ![c] =
                           StartedResearch(c, extractDomain(email))]
                  ELSE UNCHANGED tasks
    /\ UNCHANGED <<sendVars, batch, sendBatch, research, enrichCalls, lookupsStarted, finished,
                   faults, useMock, classified>>

CreateReturn(k) ==
    /\ creators[k].pc = "done"
    /\ creators' = [creators EXCEPT ![k] = IdleCreator]
    /\ UNCHANGED <<contacts, sendVars, batch, sendBatch, research, tasks, enrichCalls,
                   lookupsStarted, finished, faults, useMock, classified>>

----------------------------------------------------------------------------
(* The inputs of the research side *)

In_A_at_b_io == <<" ", "A", "@", "b", ".", "i", "o", " ">>
In_a_at_b_io == <<"a", "@", "b", ".", "i", "o">>
In_gmail == <<"j", "@", "g", "m", "a", "i", "l", ".", "c", "o", "m">>
In_edu == <<"x", "@", "m", ".", "e", "d", "u">>
In_bad == <<"b", "a", "d">>
In_notfound == <<"q", "@", "t", "e", "s", "t", "1", "2", "3", ".", "n", "e", "t">>
In_shortTld == <<"a", "@", "b", ".", "c">>

In_noDot == <<"a", "@", "b">>
In_blankInside == <<"a", " ", "b", "@", "c", ".", "i", "o">>
In_noLocal == <<"@", "b", ".", "i", "o">>
In_empty == <<>>

(* the inputs that are no email address *)
InvalidInputs == {In_bad, In_noDot, In_blankInside, In_noLocal, In_empty}

EmailInputs == {In_A_at_b_io, In_a_at_b_io, In_gmail, In_edu, In_notfound,
                In_shortTld} \cup InvalidInputs

DomainInputs == { <<" ", "B", ".", "i", "o", " ">>, <<"b", ".", "i", "o">>,
                  <<"t", "e", "s", "t", "1", "2", "3", ".", "n", "e", "t">> }

InitResearch ==
    /\ contacts = <<>>
    /\ emails = <<>>
    /\ sendCalls = [k \in Calls |-> IdleCall]
    /\ trackResult = FALSE
    /\ sendsStarted = 0
    /\ sendEmailCalls = [e \in EmailIds |-> 0]
    /\ sgSends = [e \in EmailIds |-> 0]
    /\ now = 1
    /\ sgConfigured = FALSE
    /\ research = <<>>
    /\ tasks = [t \in TaskIds |-> IdleTask]
    /\ creators = [k \in Calls |-> IdleCreator]
    /\ enrichCalls = 0
    /\ lookupsStarted = 0
    /\ finished = {}
    /\ faults = 0
    /\ useMock \in BOOLEAN
    /\ batch = IdleBatch
    /\ sendBatch = IdleSendBatch
    /\ classified = <<>>

TaskStep(t) ==
    \/ TaskMarkProcessing(t)
    \/ TaskLookup(t)
    \/ TaskEnrich(t)
    \/ TaskSave(t)
    \/ TaskWriteStatus(t)
    \/ TaskReturn(t)

NextResearch ==
    \/ \E k \in SeqCalls, u \in Users, input \in EmailInputs : CreateCheck(k, u, input)
    \/ \E k \in SeqCalls : CreateInsert(k)
    \/ \E k \in SeqCalls : CreateReturn(k)
    \/ \E t \in ContactIds : TaskStep(t)

NextResearchFault ==
    \/ NextResearch
    \/ \E t \in ContactIds : TaskFault(t)
    \/ \E t \in ContactIds : TaskCatch(t)

(* direct researchCompany calls, one after the other *)
NextLookup ==
    \/ \E d \in DomainInputs : StartLookup(d)
    \/ TaskLookup(0)
    \/ TaskEnrich(0)
    \/ TaskSave(0)
    \/ TaskReturn(0)

(* createContact calls that overlap *)
NextCreate ==
    \/ \E k \in Calls, u \in Users, input \in EmailInputs : CreateCheck(k, u, input)
    \/ \E k \in Calls : CreateInsert(k)
    \/ \E k \in Calls : CreateReturn(k)

SpecCreate == InitResearch /\ [][NextCreate]_vars

SpecResearch == InitResearch /\ [][NextResearch]_vars

SpecResearchFault == InitResearch /\ [][NextResearchFault]_vars

SpecLookup == InitResearch /\ [][NextLookup]_vars

(* the event loop runs every continuation that is ready *)
SpecResearchLive ==
    /\ InitResearch
    /\ [][NextResearch]_vars
    /\ \A t \in ContactIds : WF_vars(TaskStep(t))

----------------------------------------------------------------------------
(* batchResearchContacts *)

(* the default of the concurrency parameter, line 410 *)
DefaultConcurrency == 3

(* the limits a caller passes: the default, smaller ones, none, and a      *)
(* negative one                                                            *)
Concurrencies == -1..DefaultConcurrency

Min(a, b) == IF a <= b THEN a ELSE b

Max(a, b) == IF a >= b THEN a ELSE b

(* Array.prototype.slice: an index relative to the end when negative,      *)
(* clamped to 0..len                                                       *)
SliceIndex(n, len) == IF n < 0 THEN Max(len + n, 0) ELSE Min(n, len)

WindowAll == 1..Len(batch.items)

(* contacts.slice(i, i + concurrency): the positions of the window *)
Window ==
    (SliceIndex(batch.i, Len(batch.items)) + 1)
        ..SliceIndex(batch.i + batch.concurrency, Len(batch.items))

WindowTasks == {batch.items[j] : j \in Window}

(* lists of distinct contacts, as getPendingResearchContacts returns them *)
RECURSIVE ListsOver(_)
ListsOver(S) ==
    {<<>>} \cup UNION {{<<c>> \o l : l \in ListsOver(S \ {c})} : c \in S}

BatchDomain(c) ==
    CASE c = 1 -> <<"b", ".", "i", "o">>
      [] c = 2 -> <<"t", "e", "s", "t", "1", "2", "3", ".", "n", "e", "t">>
      [] OTHER -> <<"d", ".", "i", "o">>

BatchFixtureContacts ==
    [c \in ContactIds |->
        [userId |-> 1, email |-> <<"a", "@">> \o BatchDomain(c),
         companyDomain |-> BatchDomain(c), researchStatus |-> "pending",
         notes |-> NullStr]]

InitBatch ==
    /\ contacts = BatchFixtureContacts
    /\ emails = <<>>
    /\ sendCalls = [k \in Calls |-> IdleCall]
    /\ trackResult = FALSE
    /\ sendsStarted = 0
    /\ sendEmailCalls = [e \in EmailIds |-> 0]
    /\ sgSends = [e \in EmailIds |-> 0]
    /\ now = 1
    /\ sgConfigured = FALSE
    /\ research = <<>>
    /\ tasks = [t \in TaskIds |-> IdleTask]
    /\ creators = [k \in Calls |-> IdleCreator]
    /\ enrichCalls = 0
    /\ lookupsStarted = 0
    /\ finished = {}
    /\ faults = 0
    /\ useMock \in BOOLEAN
    /\ batch = IdleBatch
    /\ sendBatch = IdleSendBatch
    /\ classified = <<>>

(* lines 408-412: the call *)
BatchStart(items, concurrency) ==
    /\ batch.pc = "idle"
    /\ batch' = [IdleBatch EXCEPT !.pc = "launch", !.items = items,
                                  !.concurrency = concurrency]
    /\ UNCHANGED <<contacts, sendVars, sendBatch, researchVars, classified>>

(* lines 415-422: the loop test, the slice and the calls of one window *)
BatchLaunch ==
    /\ batch.pc = "launch"
    /\ IF batch.i < Len(batch.items)
       THEN /\ batch' = [batch EXCEPT !.pc = "await"]
            /\ tasks' = [t \in TaskIds |->
                  IF t \in WindowTasks
                  THEN StartedResearch(t, contacts[t].companyDomain)
                  ELSE tasks[t]]
       ELSE /\ batch' = [batch EXCEPT !.pc = "done"]
            /\ UNCHANGED tasks
    /\ UNCHANGED <<contacts, sendVars, sendBatch, research, creators, enrichCalls,
                   lookupsStarted, finished, faults, useMock, classified>>

(* Promise.all rejects when one of the window's calls rejects: the         *)
(* rejection leaves batchResearchContacts                                  *)
BatchReject ==
    /\ batch.pc = "await"
    /\ \E t \in WindowTasks : tasks[t].pc = "done" /\ tasks[t].threw
    /\ batch' = [batch EXCEPT !.pc = "done", !.threw = TRUE]
    /\ UNCHANGED <<contacts, sendVars, sendBatch, researchVars, classified>>

(* lines 418-429: Promise.all resolves, the window's results are pushed;   *)
(* i += concurrency. Once i is at or below -contacts.length every later    *)
(* slice is empty, so the values of i below -MaxBack are kept as one.      *)
BatchCollect ==
    /\ batch.pc = "await"
    /\ \A t \in WindowTasks : tasks[t].pc = "done" /\ ~tasks[t].threw
    /\ batch' = [batch EXCEPT
           !.results = @ \o [j \in 1..Cardinality(Window) |->
                                tasks[batch.items[
                                    SliceIndex(batch.i, Len(batch.items)) + j]].result],
           !.i = Max(@ + batch.concurrency, -MaxBack),
           !.pc = IF batch.i + batch.concurrency < Len(batch.items)
                  THEN "delay" ELSE "launch"]
    /\ tasks' = [t \in TaskIds |->
                    IF t \in WindowTasks THEN IdleTask ELSE tasks[t]]
    /\ UNCHANGED <<contacts, sendVars, sendBatch, research, creators, enrichCalls,
                   lookupsStarted, finished, faults, useMock, classified>>

(* line 428: the pause between two windows *)
BatchDelay ==
    /\ batch.pc = "delay"
    /\ batch' = [batch EXCEPT !.pc = "launch"]
    /\ UNCHANGED <<contacts, sendVars, sendBatch, researchVars, classified>>

NextBatch ==
    \/ \E items \in ListsOver(ContactIds), c \in Concurrencies :
           BatchStart(items, c)
    \/ BatchLaunch
    \/ BatchReject
    \/ BatchCollect
    \/ BatchDelay
    \/ \E t \in ContactIds : TaskMarkProcessing(t)
    \/ \E t \in ContactIds : TaskLookup(t)
    \/ \E t \in ContactIds : TaskEnrich(t)
    \/ \E t \in ContactIds : TaskSave(t)
    \/ \E t \in ContactIds : TaskWriteStatus(t)
    \/ \E t \in ContactIds : TaskCatch(t)
    \/ \E t \in ContactIds : TaskFault(t)

SpecBatch == InitBatch /\ [][NextBatch]_vars

(* the continuations of one research call, store failures left out *)
BatchTaskStep(t) ==
    \/ TaskMarkProcessing(t)
    \/ TaskLookup(t)
    \/ TaskEnrich(t)
    \/ TaskSave(t)
    \/ TaskWriteStatus(t)
    \/ TaskCatch(t)

(* the event loop runs every continuation that is ready: each research     *)
(* call goes on to its end, and so does the loop of the batch              *)
SpecBatchLive ==
    /\ InitBatch
    /\ [][NextBatch]_vars
    /\ WF_vars(BatchLaunch)
    /\ WF_vars(BatchReject)
    /\ WF_vars(BatchCollect)
    /\ WF_vars(BatchDelay)
    /\ \A t \in ContactIds : WF_vars(BatchTaskStep(t))

(* the research of a batch, direct researchCompany calls and updateContact *)
(* calls on the same contacts                                              *)
NextFrame ==
    \/ \E c \in {1, MaxContacts} : BatchStart([j \in ContactIds |-> j], c)
    \/ BatchLaunch
    \/ BatchReject
    \/ BatchCollect
    \/ BatchDelay
    \/ \E t \in ContactIds : TaskMarkProcessing(t)
    \/ \E t \in TaskIds : TaskLookup(t)
    \/ \E t \in TaskIds : TaskEnrich(t)
    \/ \E t \in TaskIds : TaskSave(t)
    \/ \E t \in ContactIds : TaskWriteStatus(t)
    \/ \E t \in ContactIds : TaskCatch(t)
    \/ \E t \in ContactIds : TaskFault(t)
    \/ \E d \in {BatchDomain(1)} : StartLookup(d)
    \/ TaskReturn(0)
    \/ \E k \in SeqCalls, u \in Users : UpdateFetch(k, u, 1)
    \/ \E k \in SeqCalls, input \in NoteInputs : UpdateWrite(k, input)
    \/ \E k \in SeqCalls : UpdateReturn(k)

SpecFrame == InitBatch /\ [][NextFrame]_vars


----------------------------------------------------------------------------
(* Classification of an address: isBusinessEmail and extractDomain applied *)
(* to one input, as in the classification tests                            *)

(* addresses of business, personal, educational and government domains,    *)
(* in other letter cases, with blanks around them, with near misses of the *)
(* suffixes, and strings that are no address                               *)
ClassifyInputs ==
    { <<"a", "@", "a", "c", "m", "e", ".", "i", "o">>,
      <<"A", "@", "A", "c", "m", "e", ".", "I", "O">>,
      <<" ", "a", "@", "a", "c", "m", "e", ".", "i", "o">>,
      <<"a", "@", "a", "c", "m", "e", ".", "i", "o", " ">>,
      <<"a", "@", "b", "@", "a", "c", "m", "e", ".", "i", "o">>,
      <<"a", "@", "g", "m", "a", "i", "l", ".", "c", "o", "m">>,
      <<"a", "@", "G", "M", "A", "I", "L", ".", "c", "o", "m">>,
      <<"a", "@", "h", "o", "t", "m", "a", "i", "l", ".", "c", "o", "m">>,
      <<"a", "@", "g", "m", "a", "i", "l", ".", "c", "o", "m", ".", "i", "o">>,
      <<"a", "@", "x", ".", "e", "d", "u">>,
      <<"a", "@", "x", ".", "E", "D", "U">>,
      <<"a", "@", "x", ".", "e", "d", "u", ".", "a", "u">>,
      <<"a", "@", "x", ".", "a", "c", ".", "u", "k">>,
      <<"a", "@", "x", ".", "g", "o", "v">>,
      <<"a", "@", "x", ".", "g", "o", "v", ".", "u", "k">>,
      <<"a", "@", "x", ".", "g", "o", "v", ".", "a", "u">>,
      <<"a", "@", "e", "d", "u", ".", "i", "o">>,
      <<"a", "@", "x", ".", "e", "d", "u", ".", "i", "o">>,
      <<"a", "@", "x", "e", "d", "u", ".", "i", "o">>,
      <<"a", "@", "x", ".", "g", "o", "v", ".", "i", "n">>,
      <<"a", "@", "a", "c", ".", "u", "k">>,
      <<"a", "@", "e", "d", "u", ".", "a", "u">>,
      <<"a", "@", "g", "o", "v", ".", "u", "k">>,
      <<"a", "@", "x", ".", "e", "d", "u", "c">>,
      <<"a", "@", "x", "-", "g", "o", "v", ".", "i", "o">>,
      <<"@", "a", "c", "m", "e", ".", "i", "o">>,
      <<" ", "@", "a", "c", "m", "e", ".", "i", "o">>,
      <<"a", "@">>,
      <<"a", "c", "m", "e", ".", "i", "o">>,
      <<"a", "@", "-", "x", ".", "i", "o">>,
      <<"a", "@", "a", "c", "m", "e">>,
      <<"a", "@", "x", ".", ".", "i", "o">>,
      <<>> }

Classify(email) ==
    /\ Len(classified) < MaxClassified
    /\ classified' = Append(classified,
           [email |-> email,
            isBusiness |-> isBusinessEmail(email),
            domain |-> extractDomain(email)])
    /\ UNCHANGED <<contacts, sendVars, researchVars, batch, sendBatch>>

NextClassify == \E email \in ClassifyInputs : Classify(email)

SpecClassify == InitSend /\ [][NextClassify]_vars

----------------------------------------------------------------------------
(* Steps of one sendSavedEmail call, as seen in a pair of states *)

(* call k reads the row of an email its caller owns *)
FetchesOwn(k) ==
    /\ sendCalls[k].pc = "idle"
    /\ sendCalls'[k].pc # "idle"
    /\ FindEmail(sendCalls'[k].emailId, sendCalls'[k].userId) # {}

FetchedStatus(k) == emails[sendCalls'[k].emailId].status

(* call k is turned away by the checks: it returns err and touches nothing *)
RejectedWith(k, err) ==
    /\ sendCalls'[k].pc = "done"
    /\ sendCalls'[k].result = [success |-> FALSE, error |-> err]
    /\ sendCalls'[k].log = <<>>
    /\ emails' = emails
    /\ sendEmailCalls' = sendEmailCalls
    /\ sgSends' = sgSends

SentFamily == {"sent", "delivered", "opened", "clicked", "bounced"}

C2_SentFamilyIsAlreadySent ==
    [][\A k \in Calls :
         (FetchesOwn(k) /\ FetchedStatus(k) \in SentFamily)
             => sendCalls'[k].result.error = ErrAlreadySent]_vars

(* what the code does hold to: the sent family is always turned away, with *)
(* ALREADY_SENT for sent and delivered                                     *)
C2_SentFamilyIsRejected ==
    [][\A k \in Calls :
         (FetchesOwn(k) /\ FetchedStatus(k) \in SentFamily)
             => \/ RejectedWith(k, ErrAlreadySent)
                \/ /\ FetchedStatus(k) \in {"opened", "clicked", "bounced"}
                   /\ RejectedWith(k, ErrInvalidState(FetchedStatus(k)))]_vars

(* C3: a send of a sendable email with a recipient writes `queued` before  *)
(* it reaches the provider; on the provider's success the row becomes sent *)
(* with sentAt and the provider's message id, on its failure the row       *)
(* becomes failed and the call returns the provider's error message.       *)
ReachesProvider(k) == sendCalls[k].pc = "provider" /\ sendCalls'[k].pc = "record"

RecordsOutcome(k) == sendCalls[k].pc = "record" /\ sendCalls'[k].pc = "done"

Stage(s) ==
    CASE s = "draft" -> 0
      [] s \in {"queued", "failed"} -> 1
      [] s = "sent" -> 2
      [] s = "delivered" -> 3
      [] OTHER -> 4

StatusMoveOk(s, t) ==
    \/ s = t
    \/ /\ "failed" \notin {s, t}
       /\ Stage(s) <= Stage(t)
    \/ s = "queued" /\ t = "failed"
    \/ s = "failed" /\ t = "queued"

C5_MonotonicStatus ==
    [][\A e \in DOMAIN emails :
         StatusMoveOk(emails[e].status, emails'[e].status)]_vars

----------------------------------------------------------------------------
(* Claims about the research orchestrator *)

OrchestratorWrites == {"processing", "complete", "failed"}

(* C6: one researchContactCompany call writes `processing` first and then, *)
(* before it returns, exactly one of `complete` or `failed`; it never      *)
(* writes `pending` or `na`, and every stored researchStatus is one of the *)
(* five enum values.                                                       *)
C6_WritesInOrder ==
    \A t \in ContactIds :
        LET w == tasks[t].writes
            c == tasks[t].contactId
        IN /\ Len(w) <= 2
           /\ Len(w) >= 1 => w[1] = "processing"
           /\ Len(w) = 2 => w[2] \in {"complete", "failed"}
           /\ tasks[t].pc \in {"lookup", "enrich", "save", "writeStatus"} =>
                 /\ w = <<"processing">>
                 /\ contacts[c].researchStatus = "processing"
           /\ (tasks[t].pc = "done" /\ ~tasks[t].threw) =>
                 /\ Len(w) = 2
                 /\ contacts[c].researchStatus = w[2]

C6_OnlyOrchestratorWrites ==
    \A c \in DOMAIN contacts :
        contacts'[c].researchStatus # contacts[c].researchStatus
            => contacts'[c].researchStatus \in OrchestratorWrites

C6_ProcessingThenOutcome ==
    /\ [](C6_WritesInOrder /\
          \A c \in DOMAIN contacts : contacts[c].researchStatus \in ResearchStatus)
    /\ [][C6_OnlyOrchestratorWrites]_vars

C6_Witness ==
    \E t \in ContactIds :
        /\ tasks[t].pc = "done"
        /\ tasks[t].writes = <<"processing", "failed">>
        /\ tasks[t].fault = "save"
        /\ contacts[tasks[t].contactId].researchStatus = "failed"

(* C7: when the enrichment returns an error, or a persistence call of step *)
(* 1 (the write of processing) or step 2 (cache read, enrichment, upsert)  *)
(* throws, the contact ends as `failed` and the failure is returned in the *)
(* result, not thrown.                                                     *)
FailedInSteps(t, steps) ==
    \/ tasks[t].fault \in steps
    \/ tasks[t].fault = "none" /\ ~tasks[t].result.success

ReturnedAsFailed(t) ==
    /\ ~tasks[t].threw
    /\ ~tasks[t].result.success
    /\ tasks[t].result.status = "failed"
    /\ contacts[tasks[t].contactId].researchStatus = "failed"

C7_FailuresAreReturned ==
    \A t \in ContactIds :
        (tasks[t].pc = "done" /\ FailedInSteps(t, {"markProcessing", "lookup", "save"}))
            => ReturnedAsFailed(t)

(* what the code does hold to: the failures of step 2 *)
C7_Step2FailuresAreReturned ==
    \A t \in ContactIds :
        (tasks[t].pc = "done" /\ FailedInSteps(t, {"lookup", "save"}))
            => ReturnedAsFailed(t)

(* C8: for every contact made by createContact, researchStatus is na       *)
(* exactly when the email is not a business email, companyDomain is set    *)
(* exactly when it is one, and no research ever runs for a personal        *)
(* contact.                                                                *)
C8_ClassificationStored ==
    \A c \in DOMAIN contacts :
        /\ contacts[c].researchStatus = "na" <=> ~isBusinessEmail(contacts[c].email)
        /\ contacts[c].companyDomain # NullStr <=> isBusinessEmail(contacts[c].email)
        /\ ~isBusinessEmail(contacts[c].email) => tasks[c].pc = "idle"

C8_Witness ==
    \E c, d \in DOMAIN contacts :
        /\ contacts[c].email = In_gmail
        /\ contacts[c].researchStatus = "na"
        /\ contacts[c].companyDomain = NullStr
        /\ contacts[d].companyDomain = <<"b", ".", "i", "o">>
        /\ contacts[d].researchStatus = "complete"
        /\ creators[1].pc = "idle"

(* C9: the research that createContact starts for a business contact with  *)
(* domain d finishes: with an enrichment that succeeds the contact becomes *)
(* complete and a CompanyResearch row for d exists.                        *)
IsBusinessContact(c) ==
    c \in DOMAIN contacts /\ contacts[c].companyDomain # NullStr

MockEnrichmentSucceeds(c) ==
    /\ IsBusinessContact(c)
    /\ useMock
    /\ \E d \in {contacts[c].companyDomain} :
           isValidDomain(d) /\ getMockData(d).success

ResearchFailed(c) ==
    c \in DOMAIN contacts /\ contacts[c].researchStatus = "failed"

ResearchComplete(c) ==
    /\ c \in DOMAIN contacts
    /\ contacts[c].researchStatus = "complete"
    /\ findResearch(contacts[c].companyDomain) # {}

C9_ResearchCompletes ==
    \A c \in ContactIds :
        /\ MockEnrichmentSucceeds(c) ~> ResearchComplete(c)
        /\ IsBusinessContact(c) ~> (ResearchComplete(c) \/ ResearchFailed(c))

C9_Witness ==
    \E c \in DOMAIN contacts :
        /\ contacts[c].email = In_a_at_b_io
        /\ ResearchComplete(c)
        /\ tasks[c].pc = "done"
        /\ tasks[c].result.success

(* C10: two researchCompany calls in sequence for the same domain, in any  *)
(* letter case and with surrounding spaces: one row for the normalized     *)
(* domain, and the second call is a cache hit: no provider call, success,  *)
(* the stored row returned, the row not modified.                          *)
(* the domain a caller means, whatever its case and surrounding spaces *)
Canon(d) == toLowerCase(trim(d))

LooksUp(t) == tasks[t].pc = "lookup" /\ tasks'[t].pc # "lookup"

IsCacheHit(t) ==
    /\ tasks'[t].pc = "done"
    /\ tasks'[t].result.success
    /\ tasks'[t].result.domain = Canon(tasks[t].domain)
    /\ \E i \in DOMAIN research : tasks'[t].result.companyResearch = research[i]
    /\ research' = research
    /\ enrichCalls' = enrichCalls

ReturnedBefore(d, outcomes) ==
    \E f \in finished : Canon(f.domain) = Canon(d) /\ f.success \in outcomes

RowsOf(d) == Cardinality({i \in DOMAIN research : research[i].domain = Canon(d)})

C10_SecondCallIsCacheHit ==
    /\ [](\A f \in finished : RowsOf(f.domain) = 1)
    /\ [][(LooksUp(0) /\ ReturnedBefore(tasks[0].domain, BOOLEAN))
              => IsCacheHit(0)]_vars

C10_SecondCallAfterSuccessIsCacheHit ==
    /\ [](/\ \A i \in DOMAIN research : RowsOf(research[i].domain) = 1
          /\ \A f \in finished : f.success => RowsOf(f.domain) = 1)
    /\ [][(LooksUp(0) /\ ReturnedBefore(tasks[0].domain, {TRUE}))
              => IsCacheHit(0)]_vars

C10_Witness ==
    /\ tasks[0].pc = "done"
    /\ tasks[0].domain = <<" ", "B", ".", "i", "o", " ">>
    /\ tasks[0].result.success
    /\ lookupsStarted = 2
    /\ enrichCalls = 1
    /\ Len(research) = 1
    /\ [domain |-> <<"b", ".", "i", "o">>, success |-> TRUE] \in finished
    /\ RowsOf(tasks[0].domain) = 1

(* C11: when researchCompany calls for one domain run concurrently, even    *)
(* when both miss the cache and both ask the provider, no call fails       *)
(* because of the other's write and the store never holds two rows of one  *)
(* domain.                                                                 *)
Saves(t) == tasks[t].pc = "save" /\ tasks'[t].pc # "save"

SaveSucceeds(t) ==
    /\ tasks'[t].result.success
    /\ tasks'[t].result.companyResearch = tasks[t].enrich.data
    /\ \E i \in DOMAIN research' : research'[i] = tasks[t].enrich.data

OneRowPerDomain ==
    \A i, j \in DOMAIN research :
        research[i].domain = research[j].domain => i = j

EnrichmentFails(t) ==
    /\ tasks[t].pc = "enrich"
    /\ tasks'[t].pc # "enrich"
    /\ ~tasks'[t].result.success

StoresFetched(t) ==
    /\ tasks[t].pc = "save"
    /\ tasks[t].enrich.success
    /\ research' = saveCompanyResearch(tasks[t].enrich.data)

KeepsRows ==
    /\ Len(research') >= Len(research)
    /\ \A i \in DOMAIN research : research'[i].domain = research[i].domain

C12_StoreChangedOnlyOnSuccess ==
    /\ [][\A t \in TaskIds : EnrichmentFails(t) => research' = research]_vars
    /\ [][research' # research => \E t \in TaskIds : StoresFetched(t)]_vars
    /\ [][KeepsRows]_vars

C12_Witness ==
    \E t \in ContactIds :
        /\ tasks[t].pc = "writeStatus"
        /\ ~tasks[t].result.success
        /\ tasks[t].result.error = <<"RATE_LIMITED">>
        /\ enrichCalls = 2
        /\ Len(research) = 1
        /\ research[1].domain = tasks[t].result.domain

(* C13: createContact hands back the new business contact as it was       *)
(* inserted, researchStatus `pending`, without waiting for the research it *)
(* started; whatever that research does (success, provider failure, a      *)
(* status write that throws) createContact does not throw and no rejection *)
(* is left unhandled.                                                      *)
CreatedBusiness(k) ==
    /\ creators[k].pc = "done"
    /\ creators[k].contactId # 0
    /\ creators[k].contact.companyDomain # NullStr

ResearchMoves(t) == tasks[t].pc # "idle" /\ tasks'[t] # tasks[t]

UnhandledRejection(t) ==
    tasks[t].pc = "done" /\ tasks[t].threw /\ ~tasks[t].handled

C13_CreateDoesNotWait ==
    /\ [](\A k \in SeqCalls :
            CreatedBusiness(k) =>
                /\ creators[k].error = NoError
                /\ creators[k].contact.researchStatus = "pending"
                /\ ENABLED CreateReturn(k))
    /\ [](\A t \in ContactIds : ~UnhandledRejection(t))
    /\ [][\A t \in ContactIds : ResearchMoves(t) => creators' = creators]_vars

C13_Witness ==
    \E k \in SeqCalls :
        /\ CreatedBusiness(k)
        /\ creators[k].error = NoError
        /\ creators[k].contact.researchStatus = "pending"
        /\ tasks[creators[k].contactId].pc = "done"
        /\ tasks[creators[k].contactId].threw
        /\ contacts[creators[k].contactId].researchStatus = "pending"

(* C14: batchResearchContacts returns one outcome per input pair, in input *)
(* order, and a failing item (a provider error, or an exception while the  *)
(* item is researched or its status written) does not abort the batch:     *)
(* every other item is still researched and reported.                      *)
ReportsEveryItem ==
    /\ ~batch.threw
    /\ Len(batch.results) = Len(batch.items)
    /\ \A j \in 1..Len(batch.items) :
          /\ batch.results[j].domain = contacts[batch.items[j]].companyDomain
          /\ contacts[batch.items[j]].researchStatus \in {"complete", "failed"}
          /\ batch.results[j].status = contacts[batch.items[j]].researchStatus

C14_BatchReportsEveryItem == batch.pc = "done" => ReportsEveryItem

(* what the code does hold to: provider errors and the exceptions that     *)
(* researchContactCompany catches do not abort the batch                   *)
C14_CaughtFailuresDoNotAbort ==
    (batch.pc = "done" /\ \A t \in ContactIds : ~tasks[t].threw)
        => ReportsEveryItem

(* C15: sendBatchEmails calls sendSavedEmail once per id, in list order,   *)
(* one call at a time, never stops early, and returns the results in input *)
(* order with success + failed = number of ids; in mock mode, when every   *)
(* id is a draft with a recipient, all emails end `sent` with success =    *)
(* number of ids and failed = 0.                                           *)
Collected == Len(sendBatch.results)

OneCallAtATime ==
    sendBatch.pc # "idle" =>
        /\ sendsStarted \in {Collected, Collected + 1}
        /\ sendsStarted = Collected + 1 <=> sendCalls[1].pc # "idle"
        /\ sendCalls[1].pc # "idle" =>
               sendCalls[1].emailId = sendBatch.emailIds[Collected + 1]

ResultsInOrder ==
    /\ Collected <= Len(sendBatch.emailIds)
    /\ \A j \in 1..Collected :
           sendBatch.results[j].emailId = sendBatch.emailIds[j]
    /\ sendBatch.success =
           Cardinality({j \in 1..Collected : sendBatch.results[j].success})
    /\ sendBatch.success + sendBatch.failed = Collected

BatchReturned == sendBatch.pc = "done"

AllSent ==
    /\ \A j \in 1..Len(sendBatch.emailIds) :
           emails[sendBatch.emailIds[j]].status = "sent"
    /\ sendBatch.success = Len(sendBatch.emailIds)
    /\ sendBatch.failed = 0

DistinctIds ==
    \A i, j \in 1..Len(sendBatch.emailIds) :
        sendBatch.emailIds[i] = sendBatch.emailIds[j] => i = j

C15_WitnessFailedItem ==
    /\ BatchReturned
    /\ Len(sendBatch.emailIds) = 2
    /\ ~sendBatch.results[1].success
    /\ sendBatch.results[2].success

C15_WitnessStoreFailed ==
    /\ BatchReturned
    /\ ~sgConfigured
    /\ sendBatch.allDrafts
    /\ sendBatch.emailIds = <<1, 2>>
    /\ sendBatch.results[1].error = ErrPersistence
    /\ emails[1].status = "failed"
    /\ sendBatch.results[2].success

(* C16: updateEmailTracking with a message id that no email carries        *)
(* returns false and changes no email; with a matching id it sets that     *)
(* email's status to the event and the event's timestamp (openedAt,        *)
(* clickedAt, bouncedAt), changes no other email and returns true.         *)
StampOk(old, new, event) ==
    /\ new.status = event
    /\ new.openedAt = IF event = "opened" THEN now ELSE old.openedAt
    /\ new.clickedAt = IF event = "clicked" THEN now ELSE old.clickedAt
    /\ new.bouncedAt = IF event = "bounced" THEN now ELSE old.bouncedAt
    /\ new.sentAt = old.sentAt
    /\ new.sendgridMessageId = old.sendgridMessageId
    /\ new.userId = old.userId
    /\ new.contactId = old.contactId

TrackingEffect(m, event) ==
    IF \A e \in DOMAIN emails : emails[e].sendgridMessageId # m
    THEN trackResult' = FALSE /\ emails' = emails
    ELSE /\ trackResult' = TRUE
         /\ DOMAIN emails' = DOMAIN emails
         /\ \E e \in DOMAIN emails :
               /\ emails[e].sendgridMessageId = m
               /\ StampOk(emails[e], emails'[e], event)
               /\ \A f \in DOMAIN emails \ {e} : emails'[f] = emails[f]

EmailsIn(u, st) ==
    {e \in DOMAIN emails : emails[e].userId = u /\ emails[e].status = st}

HasCountFor(u, st) ==
    /\ st \in DOMAIN getEmailStats(u)
    /\ getEmailStats(u)[st] = Cardinality(EmailsIn(u, st))

C17_EveryStatusHasCount ==
    \A u \in Users : \A st \in EmailStatus : HasCountFor(u, st)

(* C17 as the code has it: every status but `queued` has its count (0 when *)
(* the user has no such email); `queued` is not a key of the result, and   *)
(* the queued emails are counted in `total` only.                          *)
C17_EveryStatusButQueuedHasCount ==
    \A u \in Users :
        /\ \A st \in EmailStatus \ {"queued"} : HasCountFor(u, st)
        /\ "queued" \notin DOMAIN getEmailStats(u)
        /\ getEmailStats(u).total =
              Cardinality({e \in DOMAIN emails : emails[e].userId = u})

C17_Witness ==
    \E u \in Users :
        /\ EmailsIn(u, "queued") # {}
        /\ EmailsIn(u, "opened") # {}
        /\ getEmailStats(u).total = 2
        /\ getEmailStats(u).opened = 1
        /\ getEmailStats(u).draft = 0
        /\ getEmailStats(u).sent = 0

(* C18: sendSavedEmail checks existence-and-ownership, then already-sent,  *)
(* then sendable-state, then recipient: the first check that fails decides *)
(* the error (a missing or foreign email gives "not found" whatever its    *)
(* status; an already-sent email whose contact has an empty address gives  *)
(* "already sent", not "missing recipient"), and a call that fails a check *)
(* does not modify the email.                                              *)
Fetches(k, e, u) ==
    /\ sendCalls[k].pc = "idle"
    /\ sendCalls'[k].pc # "idle"
    /\ sendCalls'[k].emailId = e
    /\ sendCalls'[k].userId = u

Owned(e, u) == e \in DOMAIN emails /\ emails[e].userId = u

NoRecipient(e) == Len(contacts[emails[e].contactId].email) = 0

FirstFailure(e, u) ==
    IF ~Owned(e, u) THEN ErrNotFound
    ELSE IF emails[e].status \in {"sent", "delivered"} THEN ErrAlreadySent
    ELSE IF emails[e].status \in {"opened", "clicked", "bounced"}
         THEN ErrInvalidState(emails[e].status)
    ELSE IF NoRecipient(e) THEN ErrMissingRecipient
    ELSE NoError

C18_WitnessForeign ==
    \E k \in Calls :
        /\ sendCalls[k].pc = "done"
        /\ sendCalls[k].result.error = ErrNotFound
        /\ sendCalls[k].emailId \in DOMAIN emails
        /\ emails[sendCalls[k].emailId].userId # sendCalls[k].userId
        /\ emails[sendCalls[k].emailId].status = "sent"

(* C19: with no provider credential, or a placeholder one, sendEmail       *)
(* reports success with a synthetic message id and mockMode set, and the   *)
(* real provider is not called; hence in mock mode every sendSavedEmail on *)
(* a sendable email with a recipient ends with status `sent`, never with   *)
(* `failed`.                                                               *)
HasPart(key, part) ==
    \E i \in 1..Len(key) :
        /\ i + Len(part) - 1 <= Len(key)
        /\ \A j \in 1..Len(part) : key[i + j - 1] = part[j]

HasPrefix(key, part) ==
    Len(part) <= Len(key) /\ \A j \in 1..Len(part) : key[j] = part[j]

LooksUnconfigured(key) ==
    \/ key \in {Undefined, <<>>}
    \/ Len(key) < MinKeyLength
    \/ HasPart(key, <<"y", "o", "u", "r", "-">>)
    \/ HasPart(key, <<"y", "o", "u", "r", "_">>)
    \/ HasPart(key, <<"x", "x", "x">>)
    \/ HasPart(key, <<"X", "X", "X">>)
    \/ HasPart(key, <<"p", "l", "a", "c", "e", "h", "o", "l", "d", "e", "r">>)
    \/ HasPart(key, <<"e", "x", "a", "m", "p", "l", "e">>)
    \/ HasPrefix(key, <<"S", "G", ".", "t", "e", "s", "t">>)
    \/ HasPrefix(key, <<"t", "e", "s", "t", "_">>)

MockModeChosen ==
    \A key \in ApiKeys : LooksUnconfigured(key) <=> ~isSendGridConfigured(key)

(* call k is past the checks of lines 70-99 and has not returned *)
PastChecks(k) == sendCalls[k].pc \in {"queue", "provider", "record"}

(* the step in which call k receives the answer of sendEmail *)
ProviderAnswers(k) ==
    sendCalls[k].pc = "provider" /\ sendCalls'[k].pc = "record"

MockAnswer(k) ==
    /\ sendCalls'[k].sendResult.success
    /\ sendCalls'[k].sendResult.mockMode
    /\ sendCalls'[k].sendResult.messageId # Null
    /\ sgSends' = sgSends

EndsSent(k) ==
    /\ sendCalls'[k].result.success
    /\ sendCalls'[k].log = <<"queued", "provider", "sent">>
    /\ emails'[sendCalls[k].emailId].status = "sent"
    /\ emails'[sendCalls[k].emailId].sendgridMessageId # Null

MockProviderSucceeds ==
    [][\A k \in Calls :
         (~sgConfigured /\ ProviderAnswers(k)) => MockAnswer(k)]_vars

C19_WitnessStoreFailed ==
    /\ ~sgConfigured
    /\ \E k \in Calls :
          /\ sendCalls[k].pc = "done"
          /\ sendCalls[k].sendResult # <<>>
          /\ sendCalls[k].sendResult.success
          /\ ~sendCalls[k].result.success
          /\ emails[sendCalls[k].emailId].status = "failed"

(* C20: for every email with a syntactically valid domain, isBusinessEmail *)
(* is false exactly when the domain is in the personal-provider denylist   *)
(* or ends in .edu, .edu.au, .ac.uk, .gov, .gov.uk or .gov.au, and true    *)
(* for every other valid domain; extractDomain returns the lower-cased     *)
(* substring after the last `@`.                                           *)
LastAt(s) == CHOOSE i \in 1..Len(s) :
                 s[i] = "@" /\ \A j \in (i + 1)..Len(s) : s[j] # "@"

AfterLastAt(s) == [i \in 1..(Len(s) - LastAt(s)) |-> s[LastAt(s) + i]]

LowerCased(s) == [i \in 1..Len(s) |-> LowerOf(s[i])]

EndsIn(d, suffix) ==
    /\ Len(suffix) <= Len(d)
    /\ \A j \in 1..Len(suffix) : d[Len(d) - Len(suffix) + j] = suffix[j]

NonBusinessSuffixes ==
    {Str_edu, Str_edu_au, Str_ac_uk, Str_gov, Str_gov_uk, Str_gov_au}

(* an address: something that is not blank before the last `@`, and a      *)
(* syntactically valid domain after it                                     *)
HasValidDomain(s) ==
    /\ \E i \in 1..Len(s) : s[i] = "@"
    /\ \E i \in 1..(LastAt(s) - 1) : s[i] # " "
    /\ domainRegexTest(LowerCased(AfterLastAt(s)))

Excluded(d) ==
    d \in PERSONAL_EMAIL_DOMAINS \/ \E suf \in NonBusinessSuffixes : EndsIn(d, suf)

C20_BusinessUnlessDenylistedOrEduGov ==
    \A n \in DOMAIN classified :
        LET r == classified[n] IN
        HasValidDomain(r.email) =>
            /\ ~r.isBusiness <=> Excluded(LowerCased(AfterLastAt(r.email)))
            /\ r.domain = LowerCased(AfterLastAt(r.email))

C20_Witness ==
    /\ Len(classified) = 2
    /\ classified[1].email = <<"a", "@", "x", ".", "E", "D", "U">>
    /\ ~classified[1].isBusiness
    /\ classified[1].domain = <<"x", ".", "e", "d", "u">>
    /\ classified[2].email = <<"a", "@", "x", ".", "e", "d", "u", ".", "i", "o">>
    /\ classified[2].isBusiness
    /\ classified[2].domain = <<"x", ".", "e", "d", "u", ".", "i", "o">>

(* C21: for every malformed address (no `@`, `@` at position 0 or at the   *)
(* end, a domain with no dot, a domain failing the domain-character        *)
(* pattern) extractDomain returns null and isBusinessEmail returns false,  *)
(* so that "cannot classify" (domain null) differs from "classified as     *)
(* personal" (domain not null, isBusiness false).                          *)
Blanked(s) == trim(s)

HasDot(d) == \E i \in 1..Len(d) : d[i] = "."

(* the classes of the claim, read on the address without the blanks around *)
(* it and with the last `@` as the separator                               *)
Malformed(s) ==
    LET t == Blanked(s) IN
    \/ \A i \in 1..Len(t) : t[i] # "@"
    \/ /\ \E i \in 1..Len(t) : t[i] = "@"
       /\ \/ LastAt(t) = 1
          \/ LastAt(t) = Len(t)
          \/ ~HasDot(AfterLastAt(t))
          \/ ~domainRegexTest(LowerCased(AfterLastAt(t)))

C21_MalformedIsNullNotPersonal ==
    \A n \in DOMAIN classified :
        LET r == classified[n] IN
        /\ Malformed(r.email) => (r.domain = NullStr /\ ~r.isBusiness)
        /\ ~Malformed(r.email) => r.domain # NullStr

C21_Witness ==
    /\ Len(classified) = 2
    /\ classified[1].email = <<"a", "@", "a", "c", "m", "e">>
    /\ classified[1].domain = NullStr
    /\ ~classified[1].isBusiness
    /\ classified[2].email = <<"a", "@", "g", "m", "a", "i", "l", ".", "c", "o", "m">>
    /\ classified[2].domain = <<"g", "m", "a", "i", "l", ".", "c", "o", "m">>
    /\ ~classified[2].isBusiness

(* C22: after any interleaving of createContact calls no two contacts of   *)
(* one user have the same normalized email; a createContact whose          *)
(* normalized email already exists for that user fails with "Contact with  *)
(* this email already exists", creates no contact and triggers no          *)
(* research; the same email may be stored for another user.                *)
Stored(u, email) ==
    \E c \in DOMAIN contacts : contacts[c].userId = u /\ contacts[c].email = email

UniquePerUser ==
    \A c, d \in DOMAIN contacts :
        (contacts[c].userId = contacts[d].userId
            /\ contacts[c].email = contacts[d].email) => c = d

(* call k ends in this step, and its email is stored for its user *)
EndsOnStoredEmail(k) ==
    /\ creators[k].pc # "done"
    /\ creators'[k].pc = "done"
    /\ Stored(creators'[k].userId, creators'[k].email)

C22_DuplicateIsRejected ==
    /\ [](UniquePerUser)
    /\ [][\A k \in Calls :
            EndsOnStoredEmail(k)
                => /\ creators'[k].error = ErrDuplicate
                   /\ contacts' = contacts
                   /\ tasks' = tasks]_vars

(* what holds in every interleaving: the rows stay unique per user, and    *)
(* the call ends with an error, without a row and without research         *)
C22_DuplicateFails ==
    /\ [](UniquePerUser)
    /\ [][\A k \in Calls :
            EndsOnStoredEmail(k)
                => /\ creators'[k].error \in {ErrDuplicate, ErrUniqueConstraint}
                   /\ contacts' = contacts
                   /\ tasks' = tasks]_vars

C22_WitnessOtherUser ==
    /\ Len(contacts) = 2
    /\ contacts[1].email = contacts[2].email
    /\ contacts[1].userId # contacts[2].userId

C22_WitnessRace ==
    \E k \in Calls :
        /\ creators[k].pc = "done"
        /\ creators[k].error = ErrUniqueConstraint
        /\ Stored(creators[k].userId, creators[k].email)

(* C23: createContact with an email of invalid format fails with "Invalid  *)
(* email address" before any classification: no contact is stored, no      *)
(* research is triggered, and the outcome is an error, distinct from the   *)
(* creation of a personal contact with status `na`.                        *)
RejectedAsInvalid(k) ==
    /\ creators'[k].pc = "done"
    /\ creators'[k].error = ErrInvalidEmail
    /\ creators'[k].contactId = 0
    /\ creators'[k].contact = NullContact
    /\ contacts' = contacts
    /\ tasks' = tasks

C23_InvalidEmailIsRejected ==
    [][\A k \in Calls, u \in Users, input \in EmailInputs :
         CreateCheck(k, u, input)
             => IF input \in InvalidInputs
                THEN RejectedAsInvalid(k)
                ELSE creators'[k].error # ErrInvalidEmail]_vars

C23_Witness ==
    /\ \E k \in Calls :
          /\ creators[k].pc = "done"
          /\ creators[k].error = ErrInvalidEmail
          /\ creators[k].contactId = 0
    /\ \E k \in Calls :
          /\ creators[k].pc = "done"
          /\ creators[k].error = NoError
          /\ creators[k].contact.researchStatus = "na"
    /\ Len(contacts) = 1

----------------------------------------------------------------------------
(* C24: batchResearchContacts works through its list in consecutive        *)
(* windows of `concurrency` items: an item of a later window is not        *)
(* started before every item of the windows before it has finished, so at  *)
(* most `concurrency` research calls of the batch are in flight at a time, *)
(* while the calls of one window interleave freely. `concurrency` is read  *)
(* as a window size, a number of items that is not negative.               *)

(* the research calls of the batch that have been started and not finished *)
InFlight == {t \in ContactIds : tasks[t].pc \notin {"idle", "done"}}

(* a contact no research call has touched or been started for *)
NotStarted(t) ==
    /\ tasks[t].pc = "idle"
    /\ contacts[t].researchStatus = "pending"

C24_WindowsBoundInFlight ==
    batch.concurrency >= 0 =>
        /\ Cardinality(InFlight) <= batch.concurrency
        /\ \A t \in ContactIds :
               tasks[t].pc # "idle" =>
                   \E j \in (batch.i + 1)..(batch.i + batch.concurrency) :
                       j <= Len(batch.items) /\ batch.items[j] = t
        /\ \A j \in 1..Len(batch.items) :
               /\ j > batch.i + batch.concurrency => NotStarted(batch.items[j])
               /\ j <= batch.i =>
                      /\ tasks[batch.items[j]].pc = "idle"
                      /\ contacts[batch.items[j]].researchStatus # "pending"

(* the second window of one item is in flight after the first has finished *)
C24_Witness ==
    /\ batch.concurrency = 1
    /\ Len(batch.items) = 2
    /\ batch.i = 1
    /\ batch.items[2] \in InFlight
    /\ contacts[batch.items[1]].researchStatus \in {"complete", "failed"}

(* inside one window the second call has finished while the first is       *)
(* still running                                                           *)
C24_WitnessInterleaved ==
    /\ batch.concurrency = 2
    /\ Len(batch.items) = 2
    /\ batch.items[1] \in InFlight
    /\ tasks[batch.items[2]].pc = "done"

----------------------------------------------------------------------------
(* C25: the fields a contact gets at creation never change: no step        *)
(* changes a contact's owner, email or companyDomain; the steps of         *)
(* updateContact leave researchStatus as it is; the steps of the research  *)
(* orchestrator write no contact field but researchStatus; and the steps   *)
(* of a direct researchCompany call change no contact at all.              *)
C25_CreationFieldsAreFrozen ==
    [][/\ DOMAIN contacts' = DOMAIN contacts
       /\ \A c \in DOMAIN contacts :
              /\ contacts'[c].userId = contacts[c].userId
              /\ contacts'[c].email = contacts[c].email
              /\ contacts'[c].companyDomain = contacts[c].companyDomain
              /\ creators' # creators =>
                     contacts'[c].researchStatus = contacts[c].researchStatus
              /\ creators' = creators => contacts'[c].notes = contacts[c].notes
              /\ tasks'[0] # tasks[0] => contacts'[c] = contacts[c]]_vars

(* a contact that was edited while its research ran to completion, next to *)
(* a direct researchCompany call                                           *)
C25_Witness ==
    /\ contacts[1].notes = <<"n">>
    /\ contacts[1].researchStatus = "complete"
    /\ creators[1].pc = "done"
    /\ creators[1].contact.researchStatus = "processing"
    /\ lookupsStarted > 0

----------------------------------------------------------------------------
(* C26: when sendSavedEmail calls for the same email overlap, the email is *)
(* handed to the delivery provider at most once (counted in mock mode,     *)
(* where no hand-off fails and none is a retry), and once the email is     *)
(* stored as sent no call changes its status, sentAt or sendgridMessageId. *)
C26_ConcurrentSendsDeliverOnce ==
    /\ [](\A e \in DOMAIN emails : ~sgConfigured => sendEmailCalls[e] <= 1)
    /\ [][\A e \in DOMAIN emails :
              emails[e].status = "sent" =>
                  /\ emails'[e].status = "sent"
                  /\ emails'[e].sentAt = emails[e].sentAt
                  /\ emails'[e].sendgridMessageId = emails[e].sendgridMessageId]_vars

(* two calls have read the same draft and both have passed the checks *)
C26_WitnessRace ==
    /\ sendCalls[1].pc = "queue"
    /\ sendCalls[2].pc = "queue"
    /\ sendCalls[1].emailId = sendCalls[2].emailId
    /\ sendCalls[1].userId = sendCalls[2].userId

----------------------------------------------------------------------------
(* C27: no step of a sendSavedEmail call made for user U changes a field   *)
(* of an email that U does not own, also when a read or a write of the     *)
(* store fails and the catch block runs.                                   *)
C27_ForeignEmailsUntouched ==
    [][\A k \in SeqCalls, e \in DOMAIN emails :
           sendCalls'[k] # sendCalls[k] /\ emails'[e] # emails[e] =>
               sendCalls[k].userId = emails[e].userId]_vars

(* a call for an email of another user has ended in the catch block and    *)
(* the email is stored as failed                                           *)
C27_WitnessForeignCatch ==
    \E k \in SeqCalls :
        /\ sendCalls[k].pc = "done"
        /\ sendCalls[k].result.error = ErrPersistence
        /\ sendCalls[k].emailId \in DOMAIN emails
        /\ emails[sendCalls[k].emailId].userId # sendCalls[k].userId
        /\ emails[sendCalls[k].emailId].status = "failed"

----------------------------------------------------------------------------
(* C28: an email carries a provider message id or a sentAt stamp only      *)
(* while its status is one of sent, delivered, opened, clicked, bounced;   *)
(* an email in draft, queued or failed carries no provider message id.     *)
DeliveredFamily == {"sent", "delivered", "opened", "clicked", "bounced"}

C28_MessageIdOnlyWhenSent ==
    \A e \in DOMAIN emails :
        emails[e].sendgridMessageId # Null \/ emails[e].sentAt # Null =>
            emails[e].status \in DeliveredFamily

(* an email that was delivered is stored as failed by the catch block of a *)
(* later call and still carries the message id of its delivery            *)
C28_WitnessFailedWithId ==
    \E e \in DOMAIN emails :
        /\ emails[e].status = "failed"
        /\ emails[e].sendgridMessageId # Null
        /\ emails[e].sentAt # Null

----------------------------------------------------------------------------
(* C29: while no CompanyResearch row is deleted, a contact whose           *)
(* researchStatus is complete has a CompanyResearch row keyed by its       *)
(* companyDomain; and a researchContactCompany call that returns reports   *)
(* success = true exactly when the last status it wrote for the contact is *)
(* complete.                                                               *)
LastWrite(t) ==
    IF tasks[t].writes = <<>> THEN "none"
    ELSE tasks[t].writes[Len(tasks[t].writes)]

Returned(t) == tasks[t].pc = "done" /\ ~tasks[t].threw

C29_CompleteHasResearchRow ==
    /\ \A c \in DOMAIN contacts :
           contacts[c].researchStatus = "complete" =>
               findResearch(contacts[c].companyDomain) # {}
    /\ \A t \in ContactIds :
           Returned(t) => (tasks[t].result.success <=> LastWrite(t) = "complete")

(* one call has returned success for a complete contact, another has       *)
(* returned a failure after the catch block wrote failed                   *)
C29_Witness ==
    \E t1, t2 \in ContactIds :
        /\ Returned(t1)
        /\ tasks[t1].result.success
        /\ contacts[t1].researchStatus = "complete"
        /\ Returned(t2)
        /\ ~tasks[t2].result.success
        /\ tasks[t2].fault # "none"
        /\ contacts[t2].researchStatus = "failed"

----------------------------------------------------------------------------
(* C30: batchResearchContacts terminates for every finite list and every   *)
(* integer concurrency limit, provided each research call terminates: a    *)
(* call that was started eventually returns or rejects.                    *)
C30_BatchTerminates ==
    [](batch.pc # "idle" => <>(batch.pc = "done"))

(* what the loop does hold to: it ends for every positive limit, and for   *)
(* every limit when the list is empty                                      *)
C30_PositiveLimitTerminates ==
    []((batch.pc # "idle" /\ (batch.concurrency >= 1 \/ batch.items = <<>>))
           => <>(batch.pc = "done"))

(* a batch of two windows has returned *)
C30_WitnessReturned ==
    /\ batch.pc = "done"
    /\ ~batch.threw
    /\ batch.concurrency = 1
    /\ Len(batch.items) = 2
    /\ Len(batch.results) = 2

(* the loop is back at its test with the index it started from *)
C30_WitnessNoAdvance ==
    /\ batch.pc = "launch"
    /\ batch.concurrency = 0
    /\ batch.items # <<>>
    /\ batch.i = 0
    /\ \A t \in ContactIds : contacts[t].researchStatus = "pending"

TypeOK == \A e \in DOMAIN emails : emails[e].status \in EmailStatus

====
